---- MODULE Spec2Model ----
(***************************************************************************)
(* Multi-provider weather resolution and caching engine.                   *)
(*                                                                         *)
(* Two orchestrators live in the repository:                               *)
(*   - core.services.weather.WeatherService (local station gate, primary   *)
(*     and fallback provider, WeatherCache, kinds current/hourly/daily);   *)
(*   - backend.core.services.weather_service.WeatherServiceBridge (ordered *)
(*     provider list, Django cache, one kind).                             *)
(* A behaviour of Spec is one configured service answering a sequence of   *)
(* resolution calls, one at a time, while the clock advances in between.   *)
(* SpecConc interleaves the steps of concurrent resolution calls on one    *)
(* cache entry.                                                            *)
(***************************************************************************)
EXTENDS Integers, Sequences, FiniteSets, TLC

(***************************************************************************)
(* Bounds of the model.                                                    *)
(***************************************************************************)
\* The clock advances at most this many times in a behaviour.
MaxAdvances == 1
\* Longest provider list handed to WeatherServiceBridge.
MaxProviders == 2
\* Resolution calls in flight at once on one service (SpecConc).
MaxThreads == 2

(***************************************************************************)
(* Program constants and the bounded input sets.                           *)
(***************************************************************************)
CURRENT_TTL == 10 * 60
FORECAST_TTL == 30 * 60
WEATHER_CACHE_TIMEOUT == 300

\* ttl values a WeatherServiceBridge is constructed with.
BridgeTtls == {0, WEATHER_CACHE_TIMEOUT}

Kinds == {"current", "hourly", "daily"}
\* hours / days arguments of get_hourly / get_daily (the defaults).
Hours == {24}
Days == {7}

\* Decimals of a coordinate in a cache key: ".3f" in WeatherService._cache_key,
\* ".4f" in WeatherServiceBridge.cache_key_template.
CoreKeyDigits == 3
BridgeKeyDigits == 4

\* Coordinates are integers in units of 10^-CoordDigits degree, one digit
\* finer than the finest key: latitudes 1.00000, 1.00004 and 1.00040 at one
\* longitude.  The first two share a key at 4 decimals, all three at 3
\* decimals.  No input is a rounding tie.
CoordDigits == BridgeKeyDigits + 1
Coords == {<<100000, 100000>>, <<100004, 100000>>, <<100040, 100000>>}

\* UTC offsets (minutes) of the observed_at a bridge provider returns.
TzOffsets == {0, 180}

\* What the environment makes of one outbound request: the transport
\* raises (timeout, connection error) or returns a status and a body.
Responses ==
    { [sent |-> FALSE, status_code |-> 0, body |-> "none"],
      [sent |-> TRUE, status_code |-> 200, body |-> "point"],
      [sent |-> TRUE, status_code |-> 200, body |-> "no_section"],
      [sent |-> TRUE, status_code |-> 200, body |-> "empty"],
      [sent |-> TRUE, status_code |-> 429, body |-> "text"],
      [sent |-> TRUE, status_code |-> 500, body |-> "text"] }

\* Local station behaviour on one call: the gate, then the data method.
GateAnswers == {"fresh", "stale", "raise"}
DataAnswers == {"point", "none", "raise"}

(***************************************************************************)
(* Python values.  Optional values are <<>> (None) or <<x>>; a dict is a   *)
(* function whose domain is its key set.                                   *)
(***************************************************************************)
EmptyDict == [k \in {} |-> {}]

DictSet(d, key, item) == (key :> item) @@ d

DictPop(d, key) == [k \in DOMAIN d \ {key} |-> d[k]]

RECURSIVE Pow10(_)
Pow10(n) == IF n = 0 THEN 1 ELSE 10 * Pow10(n - 1)

\* format(x, ".<digits>f"): sign, then the magnitude rounded to the nearest
\* multiple of 10^-digits (half to even), in units of 10^-digits.
FormatFixed(x, digits) ==
    LET q == Pow10(CoordDigits - digits)
        mag == IF x < 0 THEN 0 - x ELSE x
        whole == mag \div q
        rest == mag % q
        rounded == IF 2 * rest > q THEN whole + 1
                   ELSE IF 2 * rest < q THEN whole
                   ELSE IF whole % 2 = 0 THEN whole ELSE whole + 1
    IN  <<IF x < 0 THEN "-" ELSE "", rounded>>

(***************************************************************************)
(* core.cache.WeatherCache: storage maps a key to (expires_at, value).     *)
(***************************************************************************)
\* Faulty variant of get: a hit stores the entry again with a new expiry.
WeatherCache_get_refreshing(storage, key, time) ==
    IF key \notin DOMAIN storage
    THEN [found |-> FALSE, value |-> <<>>, storage |-> storage]
    ELSE LET item == storage[key]
         IN  IF item.expires_at < time
             THEN [found |-> FALSE, value |-> <<>>, storage |-> DictPop(storage, key)]
             ELSE [found |-> TRUE, value |-> item.value,
                   storage |-> DictSet(storage, key,
                                       [expires_at |-> item.expires_at + 1,
                                        value |-> item.value])]

WeatherCache_get(storage, key, time) ==
    IF key \notin DOMAIN storage
    THEN [found |-> FALSE, value |-> <<>>, storage |-> storage]
    ELSE LET item == storage[key]
         IN  IF item.expires_at < time
             THEN [found |-> FALSE, value |-> <<>>, storage |-> DictPop(storage, key)]
             ELSE [found |-> TRUE, value |-> item.value, storage |-> storage]

\* Faulty variant of set: the expiry is the write time, the ttl is dropped.
WeatherCache_set_without_ttl(storage, key, value, ttl, time) ==
    DictSet(storage, key, [expires_at |-> time, value |-> value])

WeatherCache_set(storage, key, value, ttl, time) ==
    DictSet(storage, key, [expires_at |-> time + ttl, value |-> value])

(***************************************************************************)
(* django.core.cache.backends.base.LocMemCache: _store maps a key to       *)
(* (value, expires_at) where expires_at is None (<<>>) or a time.          *)
(***************************************************************************)
LocMemCache_get(store, key, time) ==
    IF key \notin DOMAIN store
    THEN [found |-> FALSE, value |-> <<>>, storage |-> store]
    ELSE LET item == store[key]
         IN  IF item.expires_at # <<>> /\ item.expires_at[1] <= time
             THEN [found |-> FALSE, value |-> <<>>, storage |-> DictPop(store, key)]
             ELSE [found |-> TRUE, value |-> item.value, storage |-> store]

LocMemCache_set(store, key, value, timeout, time) ==
    LET expires_at == IF timeout # 0 THEN <<time + timeout>> ELSE <<>>
    IN  DictSet(store, key, [value |-> value, expires_at |-> expires_at])

(***************************************************************************)
(* Results of calls.  A call returns ("ok", value) or raises ("raise",     *)
(* exc); cause is the __cause__ of the raised exception, <<>> when none.   *)
(***************************************************************************)
Returned(value) == [status |-> "ok", value |-> value, exc |-> "", cause |-> <<>>]

Raised(exc, cause) == [status |-> "raise", value |-> <<>>, exc |-> exc, cause |-> cause]

\* The entry a provider invocation leaves in the call log of a resolution.
LogEntry(i, response, r) ==
    [provider |-> i, status_code |-> response.status_code,
     outcome |-> IF r.status = "ok" THEN "ok" ELSE r.exc]

(***************************************************************************)
(* core.providers: the HTTP adapters behind WeatherService.                *)
(***************************************************************************)
\* WeatherProvider._handle_response
_handle_response(response) ==
    IF response.status_code = 429 THEN Raised("QuotaExceeded", <<>>)
    ELSE IF response.status_code >= 400 THEN Raised("ProviderError", <<>>)
    ELSE Returned(response)

\* WeatherProvider._request: the except clauses name requests.Timeout, which
\* the bundled requests package does not define, so an exception of the
\* transport surfaces as AttributeError.
_request(response) ==
    IF ~response.sent THEN Raised("AttributeError", <<>>)
    ELSE _handle_response(response)

\* The normalized point of the core (core.entities.WeatherPoint): its source
\* and the instant it was observed at.
CorePoint(name, instant) == [source |-> name, timestamp |-> instant]

\* current / hourly / daily of an adapter: one _request, then the body is
\* decoded.  An empty body decodes to None and data.get raises
\* AttributeError; a body without the expected section is a ProviderError.
\* hourly and daily return a list of points.
AdapterCall(name, method_name, response, time) ==
    LET r == _request(response)
    IN  IF r.status = "raise" THEN r
        ELSE IF response.body = "empty" THEN Raised("AttributeError", <<>>)
        ELSE IF response.body = "no_section" THEN Raised("ProviderError", <<>>)
        ELSE IF method_name = "current"
             THEN Returned(CorePoint(name, time))
             ELSE Returned(<<CorePoint(name, time)>>)

(***************************************************************************)
(* core.services.weather.WeatherService                                    *)
(***************************************************************************)
\* Faulty variant of the provider tuple: the fallback comes first.
CoreProvidersSwapped == <<"fallback", "primary">>

\* The (primary, fallback) tuple of _fetch_with_fallback.
CoreProviders == <<"primary", "fallback">>

\* WeatherService._cache_key; extra is <<>> (None) or <<n>>.
_cache_key(kind, latitude, longitude, extra) ==
    IF extra # <<>>
    THEN <<"weather", kind, FormatFixed(latitude, CoreKeyDigits), FormatFixed(longitude, CoreKeyDigits), extra[1]>>
    ELSE <<"weather", kind, FormatFixed(latitude, CoreKeyDigits), FormatFixed(longitude, CoreKeyDigits)>>

\* What the local station answers on one call: the gate first (when the
\* station has one), the data method only when it is reached.
LocalAnswers(station) ==
    IF station = <<>> THEN {[gate |-> "absent", data |-> "absent"]}
    ELSE LET datas == IF station[1].has_data
                      THEN {[gate |-> "fresh", data |-> d] : d \in DataAnswers}
                      ELSE {[gate |-> "fresh", data |-> "absent"]}
         IN  IF station[1].has_gate
             THEN datas \cup {[gate |-> g, data |-> "absent"] : g \in GateAnswers \ {"fresh"}}
             ELSE {[a EXCEPT !.gate = "absent"] : a \in datas}

\* Faulty variant of _try_local: the gate test is inverted, a fresh station
\* is passed over.
_try_local_inverted(station, method_name, answer, time) ==
    IF station = <<>> THEN Returned(<<>>)
    ELSE IF station[1].has_gate /\ answer.gate = "raise" THEN Raised("StationError", <<>>)
    ELSE IF station[1].has_gate /\ answer.gate = "fresh" THEN Returned(<<>>)
    ELSE IF method_name = "current"
         THEN Returned(<<CorePoint("local", time)>>)
         ELSE Returned(<<<<CorePoint("local", time)>>>>)

\* Faulty variant of _try_local: the is_fresh gate is not consulted, the
\* data method is called whenever the station has one.
_try_local_ungated(station, method_name, answer, time) ==
    IF station = <<>> THEN Returned(<<>>)
    ELSE IF ~station[1].has_data THEN Returned(<<>>)
    ELSE IF answer.data \in {"raise", "none"} THEN Returned(<<>>)
    ELSE IF method_name = "current"
         THEN Returned(<<CorePoint("local", time)>>)
         ELSE Returned(<<<<CorePoint("local", time)>>>>)

\* WeatherService._try_local.  station is <<>> (None) or <<s>> with
\* s.has_gate (is_fresh is callable) and s.has_data (the data method of the
\* requested kind is callable).  Returns None (<<>>) or the station's value.
_try_local(station, method_name, answer, time) ==
    IF station = <<>> THEN Returned(<<>>)
    ELSE IF station[1].has_gate /\ answer.gate = "raise" THEN Raised("StationError", <<>>)
    ELSE IF station[1].has_gate /\ answer.gate # "fresh" THEN Returned(<<>>)
    ELSE IF ~station[1].has_data THEN Returned(<<>>)
    ELSE IF answer.data = "raise" THEN Returned(<<>>)
    ELSE IF answer.data = "none" THEN Returned(<<>>)
    ELSE IF method_name = "current"
         THEN Returned(<<CorePoint("local", time)>>)
         ELSE Returned(<<<<CorePoint("local", time)>>>>)

\* The except clauses of _fetch_with_fallback: QuotaExceeded, ProviderError.
CoreCatches(exc) == exc \in {"QuotaExceeded", "ProviderError"}

\* The loop of _fetch_with_fallback from provider i on: every outcome the
\* providers' responses allow.  has_method[i] says whether provider i has a
\* callable method of the requested kind; calls is the log of adapter
\* invocations made so far in this resolution.
RECURSIVE FetchLoop(_, _, _, _, _)
FetchLoop(i, has_method, method_name, time, calls) ==
    IF i > Len(CoreProviders)
    THEN {[result |-> Raised("ProviderError", <<>>), calls |-> calls]}
    ELSE IF ~has_method[i]
    THEN FetchLoop(i + 1, has_method, method_name, time, calls)
    ELSE UNION {
           LET r == AdapterCall(CoreProviders[i], method_name, response, time)
               log == Append(calls, LogEntry(i, response, r))
           IN  IF r.status = "ok" THEN {[result |-> r, calls |-> log]}
               ELSE IF CoreCatches(r.exc)
               THEN FetchLoop(i + 1, has_method, method_name, time, log)
               ELSE {[result |-> r, calls |-> log]}
           : response \in Responses }

\* Faulty variant of _fetch_with_fallback: the loop starts at the fallback.
_fetch_from_fallback(has_method, method_name, time) ==
    FetchLoop(2, has_method, method_name, time, <<>>)

\* Faulty variant of _fetch_with_fallback: the callable test is left out,
\* every provider is invoked.
_fetch_without_skip(has_method, method_name, time) ==
    FetchLoop(1, [i \in DOMAIN has_method |-> TRUE], method_name, time, <<>>)

_fetch_with_fallback(has_method, method_name, time) ==
    FetchLoop(1, has_method, method_name, time, <<>>)

\* Faulty variant of the resolution: the local station's result is stored in
\* the cache like a provider's.
CoreResolve_caching_local(conf, storage, time, kind, cache_key, ttl) ==
    UNION {
      LET local == _try_local(conf.station, kind, answer, time)
      IN  IF local.status = "raise"
          THEN {[result |-> local, storage |-> storage, calls |-> <<>>, answer |-> answer,
                 local |-> "raised", lookup |-> "none", wrote |-> FALSE]}
          ELSE IF local.value # <<>>
          THEN {[result |-> Returned(local.value[1]),
                 storage |-> WeatherCache_set(storage, cache_key, local.value[1], ttl, time),
                 calls |-> <<>>,
                 answer |-> answer, local |-> "answered", lookup |-> "none", wrote |-> FALSE]}
          ELSE LET cached == WeatherCache_get(storage, cache_key, time)
               IN  IF cached.found
                   THEN {[result |-> Returned(cached.value), storage |-> cached.storage,
                          calls |-> <<>>, answer |-> answer, local |-> "none",
                          lookup |-> "hit", wrote |-> FALSE]}
                   ELSE { IF f.result.status = "raise"
                          THEN [result |-> f.result, storage |-> cached.storage,
                                calls |-> f.calls, answer |-> answer, local |-> "none",
                                lookup |-> "miss", wrote |-> FALSE]
                          ELSE [result |-> f.result,
                                storage |-> WeatherCache_set(cached.storage, cache_key,
                                                             f.result.value, ttl, time),
                                calls |-> f.calls, answer |-> answer, local |-> "none",
                                lookup |-> "miss", wrote |-> TRUE]
                          : f \in _fetch_with_fallback(conf.has_method, kind, time) }
      : answer \in LocalAnswers(conf.station) }

\* The common body of get_current, get_hourly and get_daily: every outcome
\* of one resolution on cache content storage at clock time.
CoreResolve(conf, storage, time, kind, cache_key, ttl) ==
    UNION {
      LET local == _try_local(conf.station, kind, answer, time)
      IN  IF local.status = "raise"
          THEN {[result |-> local, storage |-> storage, calls |-> <<>>, answer |-> answer,
                 local |-> "raised", lookup |-> "none", wrote |-> FALSE]}
          ELSE IF local.value # <<>>
          THEN {[result |-> Returned(local.value[1]), storage |-> storage, calls |-> <<>>,
                 answer |-> answer, local |-> "answered", lookup |-> "none", wrote |-> FALSE]}
          ELSE LET cached == WeatherCache_get(storage, cache_key, time)
               IN  IF cached.found
                   THEN {[result |-> Returned(cached.value), storage |-> cached.storage,
                          calls |-> <<>>, answer |-> answer, local |-> "none",
                          lookup |-> "hit", wrote |-> FALSE]}
                   ELSE { IF f.result.status = "raise"
                          THEN [result |-> f.result, storage |-> cached.storage,
                                calls |-> f.calls, answer |-> answer, local |-> "none",
                                lookup |-> "miss", wrote |-> FALSE]
                          ELSE [result |-> f.result,
                                storage |-> WeatherCache_set(cached.storage, cache_key,
                                                             f.result.value, ttl, time),
                                calls |-> f.calls, answer |-> answer, local |-> "none",
                                lookup |-> "miss", wrote |-> TRUE]
                          : f \in _fetch_with_fallback(conf.has_method, kind, time) }
      : answer \in LocalAnswers(conf.station) }

(***************************************************************************)
(* backend.core: WeatherPoint, the HTTP adapter and WeatherServiceBridge.  *)
(***************************************************************************)
\* backend.core.abstractions.WeatherPoint; observed_at is an aware datetime:
\* an instant (seconds, UTC) and the UTC offset (minutes) it is written in.
BridgePoint(latitude, longitude, source, instant, utcoffset) ==
    [latitude |-> latitude, longitude |-> longitude, source |-> source,
     observed_at |-> [instant |-> instant, utcoffset |-> utcoffset]]

\* The name attribute of the i-th provider of the list.
ProviderName(i) == <<"provider", i>>

\* provider.get_weather of an HTTP adapter (OpenMeteoProvider.get_weather):
\* session.get, raise_for_status, response.json(), the "current" section.
get_weather_adapter(name, latitude, longitude, response, instant, utcoffset) ==
    IF ~response.sent THEN Raised("RequestException", <<>>)
    ELSE IF response.status_code >= 400 THEN Raised("HTTPError", <<>>)
    ELSE IF response.body = "empty" THEN Raised("AttributeError", <<>>)
    ELSE IF response.body = "no_section" THEN Raised("RuntimeError", <<>>)
    ELSE Returned(BridgePoint(latitude, longitude, name, instant, utcoffset))

\* Faulty variant of _serialize: the wall-clock reading is stamped as UTC
\* without being converted.
_serialize_wall(point) ==
    [point EXCEPT !.observed_at =
        <<point.observed_at.instant + 60 * point.observed_at.utcoffset, "Z">>]

\* WeatherServiceBridge._serialize: asdict, observed_at converted to UTC and
\* written as ISO text ending in "Z".
_serialize(point) ==
    [point EXCEPT !.observed_at = <<point.observed_at.instant, "Z">>]

\* WeatherServiceBridge._deserialize: "Z" read back as +00:00.
_deserialize(payload) ==
    [payload EXCEPT !.observed_at = [instant |-> payload.observed_at[1], utcoffset |-> 0]]

\* WeatherServiceBridge.cache_key_template
BridgeKey(latitude, longitude) ==
    <<"weather", FormatFixed(latitude, BridgeKeyDigits), FormatFixed(longitude, BridgeKeyDigits)>>

\* The except clause of get_weather: except Exception.
BridgeCatches(exc) == TRUE

\* The provider loop of get_weather from provider i on: every outcome the
\* providers' responses allow.  errors is the list of caught exceptions,
\* calls the log of provider invocations.
RECURSIVE BridgeLoop(_, _, _, _, _, _)
BridgeLoop(i, conf, req, time, calls, errors) ==
    IF i > conf.providers
    THEN {[result |-> Raised("WeatherServiceError",
                             IF errors # <<>> THEN <<errors[1]>> ELSE <<>>),
           calls |-> calls]}
    ELSE UNION {
           LET r == get_weather_adapter(ProviderName(i), req[1], req[2], response, time, 0)
               log == Append(calls, LogEntry(i, response, r))
           IN  IF r.status = "ok"
               THEN { [result |-> get_weather_adapter(ProviderName(i), req[1], req[2],
                                                      response, time, utcoffset),
                       calls |-> log] : utcoffset \in TzOffsets }
               ELSE IF BridgeCatches(r.exc)
               THEN BridgeLoop(i + 1, conf, req, time, log,
                               Append(errors, [provider |-> i, exc |-> r.exc]))
               ELSE {[result |-> r, calls |-> log]}
           : response \in Responses }

\* WeatherServiceBridge.get_weather on cache content store at clock time.
BridgeResolve(conf, store, time, req, cache_key) ==
    LET cached == LocMemCache_get(store, cache_key, time)
        none == [gate |-> "absent", data |-> "absent"]
    IN  IF cached.found
        THEN {[result |-> Returned(_deserialize(cached.value)), storage |-> cached.storage,
               calls |-> <<>>, answer |-> none, local |-> "none", lookup |-> "hit",
               wrote |-> FALSE]}
        ELSE { IF f.result.status = "raise"
               THEN [result |-> f.result, storage |-> cached.storage, calls |-> f.calls,
                     answer |-> none, local |-> "none", lookup |-> "miss", wrote |-> FALSE]
               ELSE [result |-> f.result,
                     storage |-> LocMemCache_set(cached.storage, cache_key,
                                                 _serialize(f.result.value), conf.ttl, time),
                     calls |-> f.calls, answer |-> none, local |-> "none",
                     lookup |-> "miss", wrote |-> TRUE]
               : f \in BridgeLoop(1, conf, req, time, <<>>, <<>>) }

(***************************************************************************)
(* The sequential state machine: one configured service answering calls    *)
(* one at a time.                                                          *)
(*   config   the service under test, what it was constructed with and the *)
(*            kind of request its callers make                             *)
(*   now      the clock (time_func of WeatherCache, time.time of LocMemCache)*)
(*   ticks    how often the clock has advanced                             *)
(*   storage  the cache content (_storage of WeatherCache, _store of       *)
(*            LocMemCache)                                                 *)
(*   filled   history: per key, the value last written under it, when and  *)
(*            with which ttl                                               *)
(*   last     the resolution call that has just completed and its outcome, *)
(*            until its caller has taken the outcome (NoCall otherwise)    *)
(*   threads  SpecConc only: per thread, the position of its resolution    *)
(*            call and the call's local variables                          *)
(***************************************************************************)
VARIABLES config, now, ticks, storage, filled, last, threads

vars == <<config, now, ticks, storage, filled, last, threads>>

\* Local stations a WeatherService is constructed with: none, one with an
\* is_fresh gate, one without a gate, one without the data method.
StationConfs ==
    { <<>>,
      <<[has_gate |-> TRUE, has_data |-> TRUE]>>,
      <<[has_gate |-> FALSE, has_data |-> TRUE]>>,
      <<[has_gate |-> TRUE, has_data |-> FALSE]>> }

\* A WeatherService: each local station with two full providers, and without
\* a station each combination of providers having the requested method.
CoreConfs ==
    { [svc |-> "core", kind |-> k, station |-> s, has_method |-> <<TRUE, TRUE>>] :
        k \in Kinds, s \in StationConfs }
    \cup
    { [svc |-> "core", kind |-> k, station |-> <<>>, has_method |-> <<m1, m2>>] :
        k \in Kinds, m1 \in BOOLEAN, m2 \in BOOLEAN }

\* A WeatherServiceBridge: providers is the length of its provider list.
BridgeConfs ==
    { [svc |-> "bridge", kind |-> "current", providers |-> n, ttl |-> t] :
        n \in 0..MaxProviders, t \in BridgeTtls }

\* The TTL the configured service writes its entries with.
Ttl(conf) ==
    IF conf.svc = "bridge" THEN conf.ttl
    ELSE IF conf.kind = "current" THEN CURRENT_TTL ELSE FORECAST_TTL

\* Amounts (seconds) by which the clock advances between calls: just short
\* of the TTL and just past it.
AdvanceSteps(conf) == {d \in {Ttl(conf) - 1, Ttl(conf) + 1} : d > 0}

\* The entries of the cache content a get at clock time would return.
Live(conf, content, time) ==
    LET get(k) == IF conf.svc = "core" THEN WeatherCache_get(content, k, time)
                  ELSE LocMemCache_get(content, k, time)
    IN  { <<k, get(k).value>> : k \in { j \in DOMAIN content : get(j).found } }

NoCall ==
    [done |-> FALSE, key |-> <<>>, at |-> 0, ttl |-> 0,
     answer |-> [gate |-> "absent", data |-> "absent"],
     local |-> "none", lookup |-> "none", prior |-> <<>>, calls |-> <<>>,
     result |-> Returned(<<>>), wrote |-> FALSE, changed |-> FALSE, lost |-> FALSE]

Init ==
    /\ config \in CoreConfs \cup BridgeConfs
    /\ now = 0
    /\ ticks = 0
    /\ storage = EmptyDict
    /\ filled = EmptyDict
    /\ last = NoCall
    /\ threads = <<>>

\* A call leaves its outcome out in last.
Record(cache_key, ttl, out) ==
    /\ storage' = out.storage
    /\ filled' = IF out.wrote
                 THEN DictSet(filled, cache_key,
                              [value |-> out.storage[cache_key].value, at |-> now, ttl |-> ttl])
                 ELSE filled
    /\ last' = [done |-> TRUE, key |-> cache_key, at |-> now, ttl |-> ttl,
                answer |-> out.answer, local |-> out.local, lookup |-> out.lookup,
                prior |-> IF cache_key \in DOMAIN filled THEN <<filled[cache_key]>> ELSE <<>>,
                calls |-> out.calls, result |-> out.result, wrote |-> out.wrote,
                changed |-> (out.storage # storage),
                lost |-> (Live(config, out.storage, now) # Live(config, storage, now))]
    /\ UNCHANGED <<config, now, ticks, threads>>

\* WeatherService.get_current(latitude, longitude)
get_current(latitude, longitude) ==
    /\ ~last.done
    /\ config.svc = "core" /\ config.kind = "current"
    /\ LET cache_key == _cache_key("current", latitude, longitude, <<>>)
       IN  \E out \in CoreResolve(config, storage, now, "current", cache_key, CURRENT_TTL) :
             Record(cache_key, CURRENT_TTL, out)

\* WeatherService.get_hourly(latitude, longitude, hours)
get_hourly(latitude, longitude, hours) ==
    /\ ~last.done
    /\ config.svc = "core" /\ config.kind = "hourly"
    /\ LET cache_key == _cache_key("hourly", latitude, longitude, <<hours>>)
       IN  \E out \in CoreResolve(config, storage, now, "hourly", cache_key, FORECAST_TTL) :
             Record(cache_key, FORECAST_TTL, out)

\* WeatherService.get_daily(latitude, longitude, days)
get_daily(latitude, longitude, days) ==
    /\ ~last.done
    /\ config.svc = "core" /\ config.kind = "daily"
    /\ LET cache_key == _cache_key("daily", latitude, longitude, <<days>>)
       IN  \E out \in CoreResolve(config, storage, now, "daily", cache_key, FORECAST_TTL) :
             Record(cache_key, FORECAST_TTL, out)

\* WeatherServiceBridge.get_weather(latitude, longitude)
get_weather(latitude, longitude) ==
    /\ ~last.done
    /\ config.svc = "bridge"
    /\ LET cache_key == BridgeKey(latitude, longitude)
       IN  \E out \in BridgeResolve(config, storage, now, <<latitude, longitude>>, cache_key) :
             Record(cache_key, config.ttl, out)

\* The caller takes the outcome of the completed call.
Deliver ==
    /\ last.done
    /\ last' = NoCall
    /\ UNCHANGED <<config, now, ticks, storage, filled, threads>>

\* The clock moves on between calls.
Advance(d) ==
    /\ ~last.done
    /\ ticks < MaxAdvances
    /\ now' = now + d
    /\ ticks' = ticks + 1
    /\ UNCHANGED <<config, storage, filled, last, threads>>

Next ==
    \/ \E c \in Coords : get_current(c[1], c[2])
    \/ \E c \in Coords, h \in Hours : get_hourly(c[1], c[2], h)
    \/ \E c \in Coords, d \in Days : get_daily(c[1], c[2], d)
    \/ \E c \in Coords : get_weather(c[1], c[2])
    \/ Deliver
    \/ \E d \in AdvanceSteps(config) : Advance(d)

Spec == Init /\ [][Next]_vars

(***************************************************************************)
(* Concurrent resolution calls.  Neither cache takes a lock, so the        *)
(* statements of get (read the item, compare its expiry with the clock,    *)
(* pop the key) and set of calls running in different threads interleave.  *)
(* Every thread resolves the same coordinates on a service without a local *)
(* station.                                                                *)
(***************************************************************************)
Threads == 1..MaxThreads

ConcConfs ==
    { c \in CoreConfs : c.kind = "current" /\ c.station = <<>> /\ c.has_method = <<TRUE, TRUE>> }
    \cup { c \in BridgeConfs : c.providers = 1 }

\* The coordinates every thread asks for and their cache key.
ConcCoord == <<100000, 100000>>

ConcKey(conf) ==
    IF conf.svc = "core" THEN _cache_key(conf.kind, ConcCoord[1], ConcCoord[2], <<>>)
    ELSE BridgeKey(ConcCoord[1], ConcCoord[2])

\* The expiry test of get on an item it has read.
ItemExpired(conf, item, time) ==
    IF conf.svc = "core" THEN item.expires_at < time
    ELSE item.expires_at # <<>> /\ item.expires_at[1] <= time

\* Faulty variant of the set of a resolution: an entry already stored under
\* the key is kept.
ResolveSet_first_wins(conf, content, key, value, time) ==
    IF key \in DOMAIN content THEN content
    ELSE IF conf.svc = "core" THEN WeatherCache_set(content, key, value, Ttl(conf), time)
    ELSE LocMemCache_set(content, key, _serialize(value), conf.ttl, time)

\* The cache.set statement of a resolution.
ResolveSet(conf, content, key, value, time) ==
    IF conf.svc = "core" THEN WeatherCache_set(content, key, value, Ttl(conf), time)
    ELSE LocMemCache_set(content, key, _serialize(value), conf.ttl, time)

\* What the provider loop of a resolution can end with.
FetchResults(conf, time) ==
    IF conf.svc = "core"
    THEN {f.result : f \in _fetch_with_fallback(conf.has_method, conf.kind, time)}
    ELSE {f.result : f \in BridgeLoop(1, conf, ConcCoord, time, <<>>, <<>>)}

\* A thread between calls.  item is the local variable of get, fetched the
\* provider result; seen, got, got_at, popped_other and outcome are history:
\* the latest completed set when the thread's get began, what the get
\* returned and when, whether its pop removed an item other than the one it
\* read, and how the resolution ended ("cached": it returned the cached
\* value, "provider": it returned a provider's result, "failed": it raised).
Idle ==
    [pc |-> "idle", item |-> <<>>, fetched |-> <<>>, seen |-> <<>>,
     got |-> "pending", got_item |-> <<>>, got_at |-> 0, popped_other |-> FALSE,
     outcome |-> "pending"]

InitConc ==
    /\ config \in ConcConfs
    /\ now = 0
    /\ ticks = 0
    /\ storage = EmptyDict
    /\ filled = EmptyDict
    /\ last = NoCall
    /\ threads = [t \in Threads |-> Idle]

\* get, first statement: item = storage.get(key); no item returns None.
cache_get_read(t) ==
    /\ threads[t].pc = "idle"
    /\ LET key == ConcKey(config)
           seen == IF key \in DOMAIN filled THEN <<filled[key]>> ELSE <<>>
       IN  threads' = [threads EXCEPT ![t] =
             IF key \in DOMAIN storage
             THEN [Idle EXCEPT !.pc = "check", !.item = <<storage[key]>>, !.seen = seen]
             ELSE [Idle EXCEPT !.pc = "fetch", !.seen = seen,
                               !.got = "absent", !.got_at = now]]
    /\ UNCHANGED <<config, now, ticks, storage, filled, last>>

\* get, the expiry test against the clock; an unexpired item is returned
\* and ends the resolution.
cache_get_check(t) ==
    /\ threads[t].pc = "check"
    /\ threads' = [threads EXCEPT ![t] =
          IF ItemExpired(config, threads[t].item[1], now)
          THEN [@ EXCEPT !.pc = "pop"]
          ELSE [@ EXCEPT !.pc = "idle", !.got = "found", !.got_item = threads[t].item,
                         !.got_at = now, !.item = <<>>, !.outcome = "cached"]]
    /\ UNCHANGED <<config, now, ticks, storage, filled, last>>

\* get, storage.pop(key, None) of the expired item, then return None.
cache_get_pop(t) ==
    /\ threads[t].pc = "pop"
    /\ LET key == ConcKey(config)
       IN  /\ storage' = DictPop(storage, key)
           /\ threads' = [threads EXCEPT ![t] =
                 [@ EXCEPT !.pc = "fetch", !.got = "absent", !.got_at = now, !.item = <<>>,
                           !.popped_other =
                               (key \in DOMAIN storage /\ <<storage[key]>> # threads[t].item)]]
    /\ UNCHANGED <<config, now, ticks, filled, last>>

\* The provider loop after a miss; a failure ends the resolution.
fetch(t) ==
    /\ threads[t].pc = "fetch"
    /\ \E r \in FetchResults(config, now) :
         threads' = [threads EXCEPT ![t] =
           IF r.status = "ok" THEN [@ EXCEPT !.pc = "set", !.fetched = <<r.value>>]
           ELSE [@ EXCEPT !.pc = "idle", !.outcome = "failed"]]
    /\ UNCHANGED <<config, now, ticks, storage, filled, last>>

\* cache.set of the provider result, then the resolution returns it.
cache_set(t) ==
    /\ threads[t].pc = "set"
    /\ LET key == ConcKey(config)
       IN  /\ storage' = ResolveSet(config, storage, key, threads[t].fetched[1], now)
           /\ filled' = DictSet(filled, key,
                                [value |-> storage'[key].value, at |-> now, ttl |-> Ttl(config)])
    /\ threads' = [threads EXCEPT ![t] =
                     [@ EXCEPT !.pc = "idle", !.fetched = <<>>, !.outcome = "provider"]]
    /\ UNCHANGED <<config, now, ticks, last>>

NextConc ==
    \/ \E t \in Threads : cache_get_read(t)
    \/ \E t \in Threads : cache_get_check(t)
    \/ \E t \in Threads : cache_get_pop(t)
    \/ \E t \in Threads : fetch(t)
    \/ \E t \in Threads : cache_set(t)
    \/ \E d \in AdvanceSteps(config) : Advance(d)

SpecConc == InitConc /\ [][NextConc]_vars

(***************************************************************************)
(* The caches on their own: get, set and clear of one cache object called  *)
(* one at a time while the clock advances.  last is the operation that has *)
(* just been made and what it returned; filled is, per key, the entry last *)
(* written and still not cleared.                                          *)
(***************************************************************************)
CacheConfs == {[svc |-> "cache", impl |-> i] : i \in {"WeatherCache", "LocMemCache"}}

CacheKeys == {"k1", "k2"}
CacheValues == {"v1", "v2"}
\* ttl / timeout arguments of set (seconds) and the amounts the clock moves by.
CacheTtls == {0, 1, 2}
CacheSteps == {1, 2}

Cache_get(conf, content, key, time) ==
    IF conf.impl = "WeatherCache" THEN WeatherCache_get(content, key, time)
    ELSE LocMemCache_get(content, key, time)

Cache_set(conf, content, key, value, ttl, time) ==
    IF conf.impl = "WeatherCache" THEN WeatherCache_set(content, key, value, ttl, time)
    ELSE LocMemCache_set(content, key, value, ttl, time)

\* WeatherCache.clear / LocMemCache.clear
Cache_clear(content) == EmptyDict

NoOp == [op |-> "none", key |-> "", found |-> FALSE, value |-> <<>>]

InitCache ==
    /\ config \in CacheConfs
    /\ now = 0
    /\ ticks = 0
    /\ storage = EmptyDict
    /\ filled = EmptyDict
    /\ last = NoOp
    /\ threads = <<>>

\* cache.get(key)
get(key) ==
    /\ LET r == Cache_get(config, storage, key, now)
       IN  /\ storage' = r.storage
           /\ last' = [op |-> "get", key |-> key, found |-> r.found, value |-> r.value]
    /\ UNCHANGED <<config, now, ticks, filled, threads>>

\* cache.set(key, value, ttl)
set(key, value, ttl) ==
    /\ storage' = Cache_set(config, storage, key, value, ttl, now)
    /\ filled' = DictSet(filled, key, [value |-> value, at |-> now, ttl |-> ttl])
    /\ last' = [op |-> "set", key |-> key, found |-> FALSE, value |-> <<>>]
    /\ UNCHANGED <<config, now, ticks, threads>>

\* cache.clear()
clear ==
    /\ storage' = Cache_clear(storage)
    /\ filled' = EmptyDict
    /\ last' = [op |-> "clear", key |-> "", found |-> FALSE, value |-> <<>>]
    /\ UNCHANGED <<config, now, ticks, threads>>

\* The clock moves on between operations.
time_passes(d) ==
    /\ ticks < MaxAdvances
    /\ now' = now + d
    /\ ticks' = ticks + 1
    /\ last' = [op |-> "time", key |-> "", found |-> FALSE, value |-> <<>>]
    /\ UNCHANGED <<config, storage, filled, threads>>

NextCache ==
    \/ \E k \in CacheKeys : get(k)
    \/ \E k \in CacheKeys, v \in CacheValues, d \in CacheTtls : set(k, v, d)
    \/ clear
    \/ \E d \in CacheSteps : time_passes(d)

SpecCache == InitCache /\ [][NextCache]_vars

(***************************************************************************)
(* Two requests in a row on one service with an empty cache, at one clock  *)
(* value: any kind, coordinates and hours/days for each.  last is the list *)
(* of the calls made so far, each with its request and its outcome.        *)
(***************************************************************************)
\* Calls made in a behaviour of SpecPair.
PairCalls == 2

\* Latitudes -0.00004, 0.00004, 1.00000, 1.00004, 1.00040, 1.00400 and
\* longitudes 1.00000, 1.00400; none is a rounding tie at 3 or 4 decimals.
PairLatitudes == {0 - 4, 4, 100000, 100004, 100040, 100400}
PairLongitudes == {100000, 100400}
PairHours == {24, 7}
PairDays == {7, 24}

PairConfs ==
    { c \in CoreConfs : c.kind = "current" /\ c.station = <<>> /\ c.has_method = <<TRUE, FALSE>> }
    \cup { c \in BridgeConfs : c.providers = 1 /\ c.ttl = WEATHER_CACHE_TIMEOUT }

\* The requests a caller of the configured service can make.
PairRequests(conf) ==
    LET at(kind, extras) ==
            { [kind |-> kind, latitude |-> la, longitude |-> lo, extra |-> x] :
                la \in PairLatitudes, lo \in PairLongitudes, x \in extras }
    IN  IF conf.svc = "bridge" THEN at("current", {<<>>})
        ELSE at("current", {<<>>})
             \cup at("hourly", {<<h>> : h \in PairHours})
             \cup at("daily", {<<d>> : d \in PairDays})

\* The cache key and the ttl the service uses for a request.
RequestKey(conf, req) ==
    IF conf.svc = "bridge" THEN BridgeKey(req.latitude, req.longitude)
    ELSE _cache_key(req.kind, req.latitude, req.longitude, req.extra)

RequestTtl(conf, req) ==
    IF conf.svc = "bridge" THEN conf.ttl
    ELSE IF req.kind = "current" THEN CURRENT_TTL ELSE FORECAST_TTL

\* Every outcome of the resolution of a request.
Resolve(conf, content, time, req) ==
    IF conf.svc = "bridge"
    THEN BridgeResolve(conf, content, time, <<req.latitude, req.longitude>>,
                       RequestKey(conf, req))
    ELSE CoreResolve(conf, content, time, req.kind, RequestKey(conf, req),
                     RequestTtl(conf, req))

InitPair ==
    /\ config \in PairConfs
    /\ now = 0
    /\ ticks = 0
    /\ storage = EmptyDict
    /\ filled = EmptyDict
    /\ last = <<>>
    /\ threads = <<>>

\* get_current / get_hourly / get_daily / get_weather for the request.
request(req) ==
    /\ Len(last) < PairCalls
    /\ \E out \in Resolve(config, storage, now, req) :
         /\ storage' = out.storage
         /\ last' = Append(last, [req |-> req, key |-> RequestKey(config, req),
                                  lookup |-> out.lookup, calls |-> out.calls,
                                  result |-> out.result, wrote |-> out.wrote])
    /\ UNCHANGED <<config, now, ticks, filled, threads>>

NextPair == \E req \in PairRequests(config) : request(req)

SpecPair == InitPair /\ [][NextPair]_vars

(***************************************************************************)
(* The provider adapters one invocation at a time.  Numbers a provider     *)
(* reports and a point carries are counted in hundredths (999.92 is        *)
(* 99992), except pressure_mm, which is in whole mmHg; None is <<>>, a     *)
(* number x is <<x>>.                                                      *)
(*   config   the adapter under test and the transport of its session      *)
(*   last     the invocation that has just completed: the replies the      *)
(*            provider had ready for successive requests, the outcome, the *)
(*            number of outbound requests made and the HTTP status the     *)
(*            raised exception carries (0 when none)                       *)
(***************************************************************************)
\* A section of a provider's body, by the quantity a key holds rather than
\* by its name: h_pa is a pressure in hPa (pressure_h_pa of Yandex,
\* pressure_msl of Open-Meteo, main.pressure of OpenWeather), pa and mm are
\* pressure_pa and pressure_mm of Yandex, wind is the wind speed in the
\* provider's unit (wind_speed of Yandex and wind.speed of OpenWeather in
\* m/s, windspeed_10m of Open-Meteo in km/h), precipitation is <<kind, x>>
\* with kind "absent" (no precipitation key at all), "null" or "num".  temp
\* is the temperature in hundredths of a degree Celsius under the key an
\* adapter reads first (temp of Yandex, temperature_2m of Open-Meteo,
\* main.temp of OpenWeather, temperature_2m_min of an Open-Meteo day),
\* temp_alt the one under the key it reads next (temp_avg of Yandex,
\* temperature of Open-Meteo, temperature_2m_max of an Open-Meteo day).
\* The payloads vary the pressure, wind and precipitation keys around one
\* temperature, and the temperature keys around one pressure and
\* precipitation.
Payloads ==
    [temp : {<<1500>>},
     temp_alt : {<<>>},
     h_pa : {<<>>, <<100000>>},
     pa : {<<>>, <<10132500>>},
     mm : {<<>>, <<750>>},
     wind : {<<>>, <<0>>, <<3600>>},
     precipitation : {<<"absent", 0>>, <<"null", 0>>, <<"num", 0>>, <<"num", 250>>}]
    \cup
    [temp : {<<>>, <<0>>, <<1500>>},
     temp_alt : {<<>>, <<2000>>},
     h_pa : {<<100000>>},
     pa : {<<>>},
     mm : {<<>>},
     wind : {<<0>>, <<3600>>},
     precipitation : {<<"num", 250>>}]

FullPayload ==
    [temp |-> <<1500>>, temp_alt |-> <<>>, h_pa |-> <<100000>>, pa |-> <<>>, mm |-> <<>>, wind |-> <<3600>>,
     precipitation |-> <<"num", 250>>]

\* Bodies: no content, text that is not JSON, a JSON object without the
\* section the method reads, a JSON object with it.
Bodies ==
    { [kind |-> "empty", data |-> FullPayload],
      [kind |-> "invalid", data |-> FullPayload],
      [kind |-> "no_section", data |-> FullPayload] }
    \cup { [kind |-> "json", data |-> p] : p \in Payloads }

\* What the provider answers to one request; status_code 0 stands for no
\* answer at all (timeout, connection error).
Replies ==
    { [status_code |-> 0, body |-> [kind |-> "empty", data |-> FullPayload]] }
    \cup { [status_code |-> 200, body |-> b] : b \in Bodies }
    \cup { [status_code |-> 204, body |-> [kind |-> "empty", data |-> FullPayload]] }
    \cup { [status_code |-> s, body |-> [kind |-> "invalid", data |-> FullPayload]] :
             s \in {400, 429, 500, 503} }

\* What the provider would answer to a second request.
SecondReplies ==
    { [status_code |-> 200, body |-> [kind |-> "json", data |-> FullPayload]],
      [status_code |-> 500, body |-> [kind |-> "invalid", data |-> FullPayload]] }

\* RequestConfig.status_forcelist
status_forcelist == {429, 500, 502, 503, 504}

\* round(n / d, 0) for n >= 0, d > 0: to the nearest integer, ties to even.
RoundHalfEven(n, d) ==
    LET q == n \div d
        r == n % d
    IN  IF 2 * r > d THEN q + 1
        ELSE IF 2 * r < d THEN q
        ELSE IF q % 2 = 0 THEN q ELSE q + 1

\* a or b of two optional numbers: None and 0.0 are falsy.
PyOr(a, b) == IF a # <<>> /\ a[1] # 0 THEN a ELSE b

\* openmeteo._average of a minimum and a maximum: the mean of the values
\* that are not None, None when there is none.
_average(values) ==
    LET filtered == SelectSeq(values, LAMBDA v : v # <<>>)
    IN  IF filtered = <<>> THEN <<>>
        ELSE IF Len(filtered) = 1 THEN filtered[1]
        ELSE <<(filtered[1][1] + filtered[2][1]) \div 2>>

\* yandex._mmhg_to_hpa: round(value * 1.33322, 2), of whole mmHg
_mmhg_to_hpa(value) ==
    IF value = <<>> THEN <<>> ELSE <<RoundHalfEven(value[1] * 133322, 1000)>>

\* openmeteo._kmh_to_ms: round(value / 3.6, 2)
_kmh_to_ms(value) ==
    IF value = <<>> THEN <<>> ELSE <<RoundHalfEven(value[1] * 10, 36)>>

\* YandexWeatherProvider._extract_pressure
_extract_pressure(payload) ==
    IF payload.h_pa # <<>> THEN payload.h_pa
    ELSE IF payload.pa # <<>> THEN <<RoundHalfEven(payload.pa[1], 100)>>
    ELSE _mmhg_to_hpa(payload.mm)

\* YandexWeatherProvider._extract_precipitation, of a payload that has
\* neither prec_mm nor prec_mm_min and prec_mm_max.
_extract_precipitation(payload) ==
    IF payload.precipitation[1] = "num" THEN <<payload.precipitation[2]>> ELSE <<>>

\* The normalized fields of a point.
NormalizedPoint(temperature_c, pressure_hpa, wind_speed_ms, precipitation_mm, source) ==
    [temperature_c |-> temperature_c, pressure_hpa |-> pressure_hpa, wind_speed_ms |-> wind_speed_ms,
     precipitation_mm |-> precipitation_mm, source |-> source]

\* YandexWeatherProvider._build_point
_build_point(payload, source) ==
    NormalizedPoint(PyOr(payload.temp, payload.temp_alt), _extract_pressure(payload), payload.wind,
                    _extract_precipitation(payload), source)

\* Session.request: an injected transport hands its reply back as it is;
\* the urllib path raises HTTPError for a status it treats as an error and
\* RequestException when there is no answer.
Session_request(transport, reply) ==
    IF reply.status_code = 0 THEN Raised("RequestException", <<>>)
    ELSE IF transport = "urllib" /\ reply.status_code >= 400 THEN Raised("HTTPError", <<>>)
    ELSE Returned(reply)

\* Response.json: no content decodes to None, other text that is not JSON
\* raises ValueError.
Response_json(body) ==
    IF body.kind = "empty" THEN Returned(<<>>)
    ELSE IF body.kind = "invalid" THEN Raised("ValueError", <<>>)
    ELSE Returned(<<body>>)

\* The outcome of an invocation: its result, the outbound requests it made
\* and the HTTP status its exception carries.
Outcome(result, requests, carried) ==
    [result |-> result, requests |-> requests, carried |-> carried]

\* The response object _request works on: sent tells whether session.request
\* returned one.
Delivered(transport, reply) ==
    [sent |-> Session_request(transport, reply).status = "ok",
     status_code |-> reply.status_code, body |-> reply.body]

\* Faulty variant of the request of an adapter: a reply whose status is in
\* status_forcelist makes it send the request again.
WeatherProvider_request_retrying(transport, replies) ==
    IF replies[1].status_code \in status_forcelist
    THEN [result |-> _request(Delivered(transport, replies[2])), requests |-> 2]
    ELSE [result |-> _request(Delivered(transport, replies[1])), requests |-> 1]

\* The request of a core adapter: _build_session gives a plain Session, to
\* which the RequestConfig is not applied, and _request calls
\* session.request once.
WeatherProvider_request(transport, replies) ==
    [result |-> _request(Delivered(transport, replies[1])), requests |-> 1]

\* YandexWeatherProvider._fetch and OpenMeteoProvider._json after the
\* request: the decoded body, ValueError turned into ProviderError.
Decoded(r) ==
    IF r.result.status = "raise" THEN r.result
    ELSE LET data == Response_json(r.result.value.body)
         IN  IF data.status = "raise" THEN Raised("ProviderError", <<data.exc>>) ELSE data

\* YandexWeatherProvider._fetch
_fetch(transport, replies) ==
    LET r == WeatherProvider_request(transport, replies)
    IN  [result |-> Decoded(r), requests |-> r.requests]

\* The part common to the methods of a core adapter: data.get on None
\* raises AttributeError, a body without the section is a ProviderError,
\* otherwise the points are built from the section.
CoreMethod(fetched, value) ==
    IF fetched.result.status = "raise" THEN Outcome(fetched.result, fetched.requests, 0)
    ELSE IF fetched.result.value = <<>>
    THEN Outcome(Raised("AttributeError", <<>>), fetched.requests, 0)
    ELSE IF fetched.result.value[1].kind = "no_section"
    THEN Outcome(Raised("ProviderError", <<>>), fetched.requests, 0)
    ELSE Outcome(Returned(value), fetched.requests, 0)

\* The section of the body a method builds its points from.
Section(replies) == replies[1].body.data

\* YandexWeatherProvider.current
Yandex_current(transport, replies) ==
    CoreMethod(_fetch(transport, replies), _build_point(Section(replies), "yandex:fact"))

\* YandexWeatherProvider.hourly, of a forecast with one hour
Yandex_hourly(transport, replies) ==
    CoreMethod(_fetch(transport, replies), <<_build_point(Section(replies), "yandex:hour")>>)

\* YandexWeatherProvider.daily, of one forecast day
Yandex_daily(transport, replies) ==
    CoreMethod(_fetch(transport, replies), <<_build_point(Section(replies), "yandex:day")>>)

\* OpenMeteoProvider._request followed by _json
OpenMeteo_json(transport, replies) ==
    LET r == WeatherProvider_request(transport, replies)
    IN  [result |-> Decoded(r), requests |-> r.requests]

\* core OpenMeteoProvider.current
OpenMeteo_current(transport, replies) ==
    LET current == Section(replies)
    IN  CoreMethod(OpenMeteo_json(transport, replies),
                   NormalizedPoint(PyOr(current.temp, current.temp_alt), current.h_pa,
                                   _kmh_to_ms(PyOr(current.wind, <<>>)),
                                   _extract_precipitation(current), "open-meteo:current"))

\* core OpenMeteoProvider.hourly, of series with one timestamp
OpenMeteo_hourly(transport, replies) ==
    LET hourly == Section(replies)
    IN  CoreMethod(OpenMeteo_json(transport, replies),
                   <<NormalizedPoint(hourly.temp, hourly.h_pa, _kmh_to_ms(hourly.wind),
                                     _extract_precipitation(hourly), "open-meteo:hour")>>)

\* core OpenMeteoProvider.daily, of series with one date
OpenMeteo_daily(transport, replies) ==
    LET daily == Section(replies)
    IN  CoreMethod(OpenMeteo_json(transport, replies),
                   <<NormalizedPoint(_average(<<daily.temp, daily.temp_alt>>), <<>>,
                                     _kmh_to_ms(daily.wind),
                                     _extract_precipitation(daily), "open-meteo:day")>>)

\* session.get, raise_for_status and response.json of a backend adapter;
\* none of their exceptions is caught by the adapter.
BackendFetch(transport, replies) ==
    LET sent == Session_request(transport, replies[1])
    IN  IF sent.status = "raise"
        THEN Outcome(sent, 1, IF sent.exc = "HTTPError" THEN replies[1].status_code ELSE 0)
        ELSE IF replies[1].status_code >= 400
        THEN Outcome(Raised("HTTPError", <<>>), 1, replies[1].status_code)
        ELSE Outcome(Response_json(replies[1].body), 1, 0)

\* float(x) of an optional number: TypeError on None.
Floats(values) == \A i \in 1..Len(values) : values[i] # <<>>

\* backend OpenMeteoProvider.get_weather
BackendOpenMeteo_get_weather(transport, replies) ==
    LET fetched == BackendFetch(transport, replies)
        current == Section(replies)
        temperature == PyOr(current.temp, current.temp_alt)
        wind == PyOr(current.wind, <<>>)
        precipitation == IF current.precipitation[1] = "absent" THEN <<0>>
                         ELSE _extract_precipitation(current)
    IN  IF fetched.result.status = "raise" THEN fetched
        ELSE IF fetched.result.value = <<>>
        THEN Outcome(Raised("AttributeError", <<>>), fetched.requests, 0)
        ELSE IF fetched.result.value[1].kind = "no_section"
        THEN Outcome(Raised("RuntimeError", <<>>), fetched.requests, 0)
        ELSE IF ~Floats(<<temperature, current.h_pa, wind, precipitation>>)
        THEN Outcome(Raised("TypeError", <<>>), fetched.requests, 0)
        ELSE Outcome(Returned(NormalizedPoint(temperature, current.h_pa, wind, precipitation,
                                              "openmeteo")),
                     fetched.requests, 0)

\* OpenWeatherProvider.get_weather: a missing "main" reads as {}, so that
\* float(temperature) raises TypeError.
OpenWeather_get_weather(transport, replies) ==
    LET fetched == BackendFetch(transport, replies)
        data == Section(replies)
        precipitation == PyOr(_extract_precipitation(data), <<0>>)
    IN  IF fetched.result.status = "raise" THEN fetched
        ELSE IF fetched.result.value = <<>>
        THEN Outcome(Raised("AttributeError", <<>>), fetched.requests, 0)
        ELSE IF fetched.result.value[1].kind = "no_section" \/ ~Floats(<<data.temp, data.h_pa, data.wind>>)
        THEN Outcome(Raised("TypeError", <<>>), fetched.requests, 0)
        ELSE Outcome(Returned(NormalizedPoint(data.temp, data.h_pa, data.wind, precipitation,
                                              "openweather")),
                     fetched.requests, 0)

\* backend YandexWeatherProvider.get_weather and
\* LocalStationProvider.get_weather: no request; WeatherPoint is constructed
\* without its source field, which raises TypeError.
Placeholder_get_weather == Outcome(Raised("TypeError", <<>>), 0, 0)

\* The adapters and the transport of their session: the one a caller
\* injected (Session.transport) or urllib.
AdapterConfs ==
    { [svc |-> "adapter", adapter |-> a, transport |-> t] :
        a \in {"core.yandex", "core.openmeteo", "backend.openmeteo", "backend.openweather"},
        t \in {"injected", "urllib"} }
    \cup { [svc |-> "adapter", adapter |-> a, transport |-> "none"] :
             a \in {"backend.yandex", "backend.localstation"} }

NoInvocation ==
    [op |-> "none", replies |-> <<>>, result |-> Returned(<<>>), requests |-> 0, carried |-> 0]

InitAdapter ==
    /\ config \in AdapterConfs
    /\ now = 0
    /\ ticks = 0
    /\ storage = EmptyDict
    /\ filled = EmptyDict
    /\ last = NoInvocation
    /\ threads = <<>>

\* An invocation leaves its outcome in last.
Invocation(op, replies, out) ==
    /\ last' = [op |-> op, replies |-> replies, result |-> out.result,
                requests |-> out.requests, carried |-> out.carried]
    /\ UNCHANGED <<config, now, ticks, storage, filled, threads>>

YandexWeatherProvider_current(replies) ==
    /\ config.adapter = "core.yandex"
    /\ Invocation("current", replies, Yandex_current(config.transport, replies))

YandexWeatherProvider_hourly(replies) ==
    /\ config.adapter = "core.yandex"
    /\ Invocation("hourly", replies, Yandex_hourly(config.transport, replies))

YandexWeatherProvider_daily(replies) ==
    /\ config.adapter = "core.yandex"
    /\ Invocation("daily", replies, Yandex_daily(config.transport, replies))

OpenMeteoProvider_current(replies) ==
    /\ config.adapter = "core.openmeteo"
    /\ Invocation("current", replies, OpenMeteo_current(config.transport, replies))

OpenMeteoProvider_hourly(replies) ==
    /\ config.adapter = "core.openmeteo"
    /\ Invocation("hourly", replies, OpenMeteo_hourly(config.transport, replies))

OpenMeteoProvider_daily(replies) ==
    /\ config.adapter = "core.openmeteo"
    /\ Invocation("daily", replies, OpenMeteo_daily(config.transport, replies))

BackendOpenMeteoProvider_get_weather(replies) ==
    /\ config.adapter = "backend.openmeteo"
    /\ Invocation("get_weather", replies, BackendOpenMeteo_get_weather(config.transport, replies))

OpenWeatherProvider_get_weather(replies) ==
    /\ config.adapter = "backend.openweather"
    /\ Invocation("get_weather", replies, OpenWeather_get_weather(config.transport, replies))

BackendYandexWeatherProvider_get_weather ==
    /\ config.adapter = "backend.yandex"
    /\ Invocation("get_weather", <<>>, Placeholder_get_weather)

LocalStationProvider_get_weather ==
    /\ config.adapter = "backend.localstation"
    /\ Invocation("get_weather", <<>>, Placeholder_get_weather)

NextAdapter ==
    \/ \E r1 \in Replies, r2 \in SecondReplies :
         \/ YandexWeatherProvider_current(<<r1, r2>>)
         \/ YandexWeatherProvider_hourly(<<r1, r2>>)
         \/ YandexWeatherProvider_daily(<<r1, r2>>)
         \/ OpenMeteoProvider_current(<<r1, r2>>)
         \/ OpenMeteoProvider_hourly(<<r1, r2>>)
         \/ OpenMeteoProvider_daily(<<r1, r2>>)
         \/ BackendOpenMeteoProvider_get_weather(<<r1, r2>>)
         \/ OpenWeatherProvider_get_weather(<<r1, r2>>)
    \/ BackendYandexWeatherProvider_get_weather
    \/ LocalStationProvider_get_weather

SpecAdapter == InitAdapter /\ [][NextAdapter]_vars

(***************************************************************************)
(* Properties.  last describes the resolution call that has just completed: *)
(* its key, the clock it ran at, what the local station answered, whether  *)
(* the cache was looked up, the provider invocations it made and what the  *)
(* caller got.  last.prior is the value last written under the key before  *)
(* the call.                                                               *)
(***************************************************************************)
\* What a hit returns for a value held in the cache.
ReadBack(conf, value) ==
    IF conf.svc = "bridge" THEN _deserialize(value) ELSE value

\* The completed call looked the cache up while the entry last written under
\* its key had not reached its TTL.
WithinTtl ==
    /\ last.done
    /\ last.local = "none"
    /\ last.prior # <<>>
    /\ last.at < last.prior[1].at + last.prior[1].ttl

\* C1: when no local station answers, a resolution made before the TTL of
\* the entry written by an earlier successful resolution for the same
\* fingerprint has elapsed returns the cached value and invokes no provider.
C1_HitWithinTtl ==
    WithinTtl =>
        /\ last.calls = <<>>
        /\ last.result = Returned(ReadBack(config, last.prior[1].value))
        /\ ~last.wrote

\* A hit after the clock has advanced since the write.
C1_Witness ==
    /\ WithinTtl
    /\ last.at > last.prior[1].at
    /\ last.lookup = "hit"

\* The providers a resolution of the configured service can invoke.
Invocable(conf) ==
    IF conf.svc = "bridge" THEN 1..conf.providers
    ELSE {i \in 1..Len(CoreProviders) : conf.has_method[i]}

\* The exception class of the aggregate failure.
AggregateExc(conf) ==
    IF conf.svc = "bridge" THEN "WeatherServiceError" ELSE "ProviderError"

\* The form in which the cache keeps a resolution's result.
Kept(conf, value) ==
    IF conf.svc = "bridge" THEN _serialize(value) ELSE value

\* The source of a resolution's result (of its first point for a forecast).
SourceOf(conf, value) ==
    IF conf.svc = "core" /\ conf.kind # "current" THEN value[1].source ELSE value.source

\* The source the i-th configured provider stamps on its points.
ConfiguredSource(conf, i) ==
    IF conf.svc = "bridge" THEN ProviderName(i)
    ELSE IF i = 1 THEN "primary" ELSE "fallback"

Invoked == {last.calls[j].provider : j \in 1..Len(last.calls)}

AllCallsFailed == \A j \in 1..Len(last.calls) : last.calls[j].outcome # "ok"

\* The completed call missed the cache, invoked every provider it could and
\* each invocation failed.
EveryProviderFailed ==
    /\ last.done
    /\ last.lookup = "miss"
    /\ Invoked = Invocable(config)
    /\ AllCallsFailed

\* C2: if every configured provider fails during a resolution, the call
\* raises the aggregate failure, writes nothing to the cache and leaves the
\* cache content as it was, with no entry under the fingerprint.
C2_AggregateFailure ==
    EveryProviderFailed =>
        /\ last.result.status = "raise"
        /\ last.result.exc = AggregateExc(config)
        /\ ~last.wrote
        /\ ~last.lost
        /\ \A e \in Live(config, storage, now) : e[1] # last.key

\* C3 as stated: the k-th invocation of a resolution is of the k-th
\* configured provider and all invocations before it failed; a success is
\* the last invocation, is stored under the key and is returned.
FirstSuccessWins ==
    /\ last.calls # <<>> => last.lookup = "miss"
    /\ \A j \in 1..Len(last.calls) :
         last.calls[j].outcome = "ok" =>
           /\ j = Len(last.calls)
           /\ last.wrote
           /\ last.result.status = "ok"
           /\ SourceOf(config, last.result.value) = ConfiguredSource(config, last.calls[j].provider)
           /\ last.key \in DOMAIN storage
           /\ storage[last.key].value = Kept(config, last.result.value)

C3_EveryEarlierProviderInvoked ==
    last.done =>
        /\ FirstSuccessWins
        /\ \A j \in 1..Len(last.calls) : last.calls[j].provider = j

\* C3: providers are invoked in their configured order; a provider is
\* invoked only after every earlier provider that implements the requested
\* kind has been invoked and has failed in the same resolution; a success is
\* stored, returned and ends the resolution.
C3_ConfiguredOrder ==
    last.done =>
        /\ FirstSuccessWins
        /\ \A j \in 1..Len(last.calls) :
             /\ last.calls[j].provider \in Invocable(config)
             /\ \A i \in Invocable(config) :
                  i < last.calls[j].provider =>
                    \E h \in 1..(j - 1) :
                      last.calls[h].provider = i /\ last.calls[h].outcome # "ok"
             /\ \A h \in 1..(j - 1) : last.calls[h].provider < last.calls[j].provider

\* The second provider answers after the first has failed.
C3_Witness ==
    /\ last.done
    /\ Len(last.calls) = 2
    /\ last.calls[1].provider = 1 /\ last.calls[1].outcome # "ok"
    /\ last.calls[2].provider = 2 /\ last.calls[2].outcome = "ok"
    /\ last.wrote

\* The first provider answered 429 and the second succeeded.
QuotaThenSuccess ==
    /\ last.done
    /\ Len(last.calls) >= 2
    /\ last.calls[1].provider = 1 /\ last.calls[1].status_code = 429
    /\ last.calls[2].provider = 2 /\ last.calls[2].outcome = "ok"

\* C4: no provider is invoked twice in one resolution; when the first
\* provider fails with HTTP 429 and the second succeeds, the result's source
\* is the second provider's and exactly two invocations were made.
C4_QuotaFallback ==
    /\ last.done =>
         \A j \in 1..Len(last.calls), h \in 1..Len(last.calls) :
           last.calls[j].provider = last.calls[h].provider => j = h
    /\ QuotaThenSuccess =>
         /\ Len(last.calls) = 2
         /\ last.result.status = "ok"
         /\ SourceOf(config, last.result.value) = ConfiguredSource(config, 2)

C4_Witness ==
    /\ QuotaThenSuccess
    /\ config.svc = "core"

\* The completed call looked the cache up after the TTL of the entry last
\* written under its key had elapsed.
PastTtl ==
    /\ last.done
    /\ last.local = "none"
    /\ last.prior # <<>>
    /\ last.at > last.prior[1].at + last.prior[1].ttl

\* C5: once the clock has passed write time + TTL of a cached entry, the next
\* resolution for the fingerprint does not return the cached value: it
\* invokes a provider and stores the new result.
C5_RefetchAfterTtl ==
    PastTtl =>
        /\ last.lookup = "miss"
        /\ last.calls # <<>>
        /\ last.result.status = "ok" =>
             /\ last.wrote
             /\ last.key \in DOMAIN storage
             /\ storage[last.key].value = Kept(config, last.result.value)

\* The gate of the configured local station reported fresh.
GateFresh ==
    /\ last.done
    /\ config.svc = "core"
    /\ config.station # <<>>
    /\ last.answer.gate = "fresh"

\* The call returned the local station's result without a cache access or a
\* provider invocation.
LocalResult ==
    /\ last.local = "answered"
    /\ last.result.status = "ok"
    /\ SourceOf(config, last.result.value) = "local"
    /\ last.calls = <<>>
    /\ last.lookup = "none"
    /\ ~last.changed

\* C6 as stated: a fresh gate alone makes the resolution return the local
\* station's result with zero provider invocations.
C6_FreshGateAlone == GateFresh => LocalResult

\* C6: when the gate reports fresh and the station's data method for the
\* kind returns a value, the resolution returns that value (source local),
\* whatever the cache holds, with zero provider invocations.
C6_LocalPrecedence ==
    (GateFresh /\ last.answer.data = "point") => LocalResult

\* The station answers although the cache holds a live entry for the key.
C6_Witness ==
    /\ GateFresh
    /\ last.answer.data = "point"
    /\ \E e \in Live(config, storage, now) : e[1] = last.key

\* C7: an exception raised by the local station, by its data method or by
\* its is_fresh gate, is never raised to the caller: the resolution goes on
\* to the cache lookup and the providers.
C7_LocalFailureSwallowed ==
    (last.done /\ (last.answer.gate = "raise" \/ last.answer.data = "raise")) =>
        /\ last.local = "none"
        /\ last.lookup # "none"

\* C8: whatever way a provider invocation fails, the next provider is tried
\* and the only exception a resolution raises to its caller is the aggregate
\* failure, after every provider has failed.
C8_OnlyAggregateEscapes ==
    (last.done /\ last.local # "raised" /\ last.result.status = "raise") =>
        /\ last.result.exc = AggregateExc(config)
        /\ Invoked = Invocable(config)
        /\ AllCallsFailed

\* C9: the aggregate failure raised after every provider failed has as its
\* cause the error of the first provider that failed in the resolution.
C9_CauseIsFirstError ==
    (EveryProviderFailed /\ last.calls # <<>>
         /\ last.result.status = "raise" /\ last.result.exc = AggregateExc(config)) =>
        last.result.cause =
            <<[provider |-> last.calls[1].provider, exc |-> last.calls[1].outcome]>>

\* The completed call found the entry last written under its key expired,
\* that entry held the first provider's result, and now the first provider
\* failed and the second succeeded.
ReplacedByOther ==
    /\ last.done
    /\ last.lookup = "miss"
    /\ last.prior # <<>>
    /\ SourceOf(config, ReadBack(config, last.prior[1].value)) = ConfiguredSource(config, 1)
    /\ Len(last.calls) = 2
    /\ last.calls[1].provider = 1 /\ last.calls[1].outcome # "ok"
    /\ last.calls[2].provider = 2 /\ last.calls[2].outcome = "ok"

\* C15: a cache entry is not tied to the provider that produced it.  When the
\* entry written from the first provider's result has expired and in the next
\* resolution the first provider fails and the second succeeds, the entry is
\* overwritten with the second provider's result; a hit returns the value
\* last written under the key (so later hits return the second provider's
\* source); and only a resolution that missed the cache writes the entry, a
\* hit leaves the cache content as it was.
C15_EntryNotTiedToProvider ==
    last.done =>
        /\ last.wrote => last.lookup = "miss"
        /\ last.lookup = "hit" =>
              /\ ~last.changed
              /\ last.prior # <<>>
              /\ last.result = Returned(ReadBack(config, last.prior[1].value))
        /\ ReplacedByOther =>
              /\ last.wrote
              /\ last.result.status = "ok"
              /\ storage[last.key].value = Kept(config, last.result.value)
              /\ filled[last.key].value = storage[last.key].value
              /\ SourceOf(config, ReadBack(config, storage[last.key].value))
                   = ConfiguredSource(config, 2)

\* The second provider's result has replaced the first provider's expired one.
C15_Witness ==
    /\ ReplacedByOther
    /\ last.wrote
    /\ SourceOf(config, last.result.value) = ConfiguredSource(config, 2)
    /\ SourceOf(config, ReadBack(config, last.prior[1].value)) # SourceOf(config, last.result.value)


\* The expiry a completed set gave its entry.
ExpiryOf(w) == w.at + w.ttl

\* C10: under any interleaving of concurrent resolution calls, a get that
\* begins after a set has completed and returns before the written entry's
\* expiry returns that entry or one written later, and the pop of a get
\* never removes an item other than the expired one the get read.
C10_ConcurrentCacheSafe ==
    \A t \in DOMAIN threads :
        LET th == threads[t]
        IN  /\ ~th.popped_other
            /\ (th.got # "pending" /\ th.seen # <<>> /\ th.got_at < ExpiryOf(th.seen[1])) =>
                 /\ th.got = "found"
                 /\ \/ th.got_item[1].value = th.seen[1].value
                    \/ ~ItemExpired(config, th.got_item[1], ExpiryOf(th.seen[1]) - 1)

\* The clock is past write time + ttl of the entry last written under k.
PastExpiry(k) ==
    /\ k \in DOMAIN filled
    /\ now > ExpiryOf(filled[k])

\* The clock has reached write time + ttl of the entry last written under k.
AtOrPastExpiry(k) ==
    /\ k \in DOMAIN filled
    /\ now >= ExpiryOf(filled[k])

\* C11: expiry is lazy.  A get that finds the entry of its key past its
\* expiry returns absent and deletes the entry; a key leaves the storage only
\* in a clear or in a get of that key made when its entry's ttl has run out:
\* the clock and operations on other keys remove nothing.
C11_LazyExpiry ==
    [][\A k \in DOMAIN storage :
          /\ k \notin DOMAIN storage' =>
               \/ last'.op = "clear"
               \/ last'.op = "get" /\ last'.key = k /\ AtOrPastExpiry(k)
          /\ (last'.op = "get" /\ last'.key = k /\ PastExpiry(k)) =>
               ~last'.found /\ k \notin DOMAIN storage']_vars

\* The expiry an item of the storage carries: <<>> (none) or <<time>>.
StoredExpiry(conf, item) ==
    IF conf.impl = "WeatherCache" THEN <<item.expires_at>> ELSE item.expires_at

\* C12: the entry written at time t with ttl d has expiry t + d as long as it
\* is stored; a get before t + d returns its value and a get later than
\* t + d returns absent.
C12_ExpiryFixedAtWrite ==
    /\ \A k \in DOMAIN storage :
         k \in DOMAIN filled =>
           StoredExpiry(config, storage[k]) = <<ExpiryOf(filled[k])>>
    /\ (last.op = "get" /\ last.key \in DOMAIN filled) =>
         /\ now < ExpiryOf(filled[last.key]) =>
              last.found /\ last.value = filled[last.key].value
         /\ now > ExpiryOf(filled[last.key]) => ~last.found

\* A coordinate rounded to the given number of decimals, as a number.
Rounded(x, digits) ==
    LET f == FormatFixed(x, digits)
    IN  IF f[1] = "-" THEN 0 - f[2] ELSE f[2]

\* Two requests have the same fingerprint: kind, rounded coordinates, extra.
SameFingerprint(conf, q1, q2) ==
    LET digits == IF conf.svc = "bridge" THEN BridgeKeyDigits ELSE CoreKeyDigits
    IN  /\ q1.kind = q2.kind
        /\ q1.extra = q2.extra
        /\ Rounded(q1.latitude, digits) = Rounded(q2.latitude, digits)
        /\ Rounded(q1.longitude, digits) = Rounded(q2.longitude, digits)

\* C13: a second request with the fingerprint of a first, successful one is
\* answered from the first one's cache entry without a provider call; a
\* second request that differs in kind, in a rounded coordinate or in
\* hours/days never reads the first one's entry.
C13_FingerprintSharing ==
    Len(last) = 2 =>
        /\ (SameFingerprint(config, last[1].req, last[2].req) /\ last[1].wrote) =>
             /\ last[2].lookup = "hit"
             /\ last[2].calls = <<>>
             /\ last[2].result =
                    Returned(ReadBack(config, Kept(config, last[1].result.value)))
        /\ ~SameFingerprint(config, last[1].req, last[2].req) =>
             last[2].lookup # "hit"

\* C14: every point WeatherServiceBridge.get_weather returns carries the
\* latitude and longitude of the request it answers, from a provider and
\* from the cache alike.
C14_EchoesRequest ==
    \A i \in 1..Len(last) :
        (config.svc = "bridge" /\ last[i].result.status = "ok") =>
            /\ last[i].result.value.latitude = last[i].req.latitude
            /\ last[i].result.value.longitude = last[i].req.longitude

\* The completed invocation is one of an adapter that talks HTTP.
OverHttp == last.op # "none" /\ last.replies # <<>>

CoreAdapter == config.adapter \in {"core.yandex", "core.openmeteo"}

\* The exception the completed invocation ended with ("" when it returned).
Failure == IF last.result.status = "raise" THEN last.result.exc ELSE ""

\* The status and the body of the reply to the invocation's request.
ReplyStatus == last.replies[1].status_code
ReplyBody == last.replies[1].body

\* The points the completed invocation returned.
PointsOf(result) ==
    IF result.status # "ok" THEN {}
    ELSE IF last.op \in {"hourly", "daily"}
    THEN {result.value[i] : i \in 1..Len(result.value)}
    ELSE {result.value}

\* C16: every adapter reports HTTP 429 as a quota failure distinguishable
\* from the failure it reports for any other status >= 400.  A core adapter
\* raises QuotaExceeded exactly for status 429, plain ProviderError for any
\* other status >= 400, and a status below 400 by itself is no error; a
\* backend adapter raises an error that carries the status.
C16_QuotaDistinguished ==
    (OverHttp /\ ReplyStatus # 0) =>
        IF CoreAdapter
        THEN /\ (Failure = "QuotaExceeded") <=> (ReplyStatus = 429)
             /\ (ReplyStatus >= 400 /\ ReplyStatus # 429) => Failure = "ProviderError"
             /\ (ReplyStatus < 400 /\ ReplyBody.kind = "json") => Failure = ""
        ELSE /\ ReplyStatus >= 400 => (Failure # "" /\ last.carried = ReplyStatus)
             /\ ReplyStatus < 400 => last.carried = 0

Malformed ==
    /\ OverHttp
    /\ ReplyStatus = 200
    /\ ReplyBody.kind \in {"empty", "invalid", "no_section"}

\* C18: a malformed response makes the adapter call fail with a provider
\* failure, that is one the orchestrator catches to go on to the next
\* provider: ProviderError for WeatherService, any exception for
\* WeatherServiceBridge.
C18_MalformedIsProviderFailure ==
    Malformed =>
        IF CoreAdapter THEN CoreCatches(Failure) ELSE (Failure # "" /\ BridgeCatches(Failure))

\* The reply to the completed invocation was a well-formed 200 that has no
\* precipitation key and has a temperature, a pressure and a wind speed
\* above zero.
NoPrecipitation ==
    /\ OverHttp
    /\ ReplyStatus = 200
    /\ ReplyBody.kind = "json"
    /\ ReplyBody.data.precipitation[1] = "absent"
    /\ ReplyBody.data.temp # <<>> /\ ReplyBody.data.temp # <<0>>
    /\ ReplyBody.data.h_pa # <<>>
    /\ ReplyBody.data.wind # <<>> /\ ReplyBody.data.wind # <<0>>

\* C19: every point an adapter produces from a response that contains no
\* precipitation value has precipitation_mm equal to 0, and the call does
\* not fail.
C19_PrecipitationDefaultsToZero ==
    NoPrecipitation =>
        /\ Failure = ""
        /\ \A point \in PointsOf(last.result) : point.precipitation_mm = <<0>>

\* out (hundredths) is num / den of value within half a hundredth.
Scaled(out, value, num, den) ==
    /\ out # <<>>
    /\ 2 * (out[1] * den - value * num) <= den
    /\ 2 * (value * num - out[1] * den) <= den

\* C20: adapters emit fixed units.  A Yandex point takes its pressure from
\* pressure_h_pa, else from pressure_pa divided by 100, else from
\* pressure_mm multiplied by 1.33322 (750 mmHg gives 999.92 hPa); a point
\* of an Open-Meteo adapter, whose wind speed comes in km/h, has that wind
\* speed divided by 3.6 (36 km/h gives 10.0 m/s).
C20_FixedUnits ==
    (OverHttp /\ Failure = "") =>
        \A point \in PointsOf(last.result) :
            LET data == ReplyBody.data
            IN  /\ config.adapter = "core.yandex" =>
                      IF data.h_pa # <<>> THEN point.pressure_hpa = data.h_pa
                      ELSE IF data.pa # <<>> THEN Scaled(point.pressure_hpa, data.pa[1], 1, 100)
                      ELSE IF data.mm # <<>>
                      THEN /\ Scaled(point.pressure_hpa, data.mm[1], 133322, 1000)
                           /\ data.mm = <<750>> => point.pressure_hpa = <<99992>>
                      ELSE point.pressure_hpa = <<>>
                /\ (config.adapter \in {"core.openmeteo", "backend.openmeteo"}
                        /\ data.wind # <<>>) =>
                      /\ Scaled(point.wind_speed_ms, data.wind[1], 10, 36)
                      /\ data.wind = <<3600>> => point.wind_speed_ms = <<1000>>

\* Every thread has completed a resolution and none is in one.
Quiescent ==
    \A t \in DOMAIN threads : threads[t].pc = "idle" /\ threads[t].outcome # "pending"

C30_LocalLeavesCacheAlone ==
    last.done =>
        /\ last.local = "answered" =>
              /\ last.lookup = "none"
              /\ ~last.wrote
              /\ ~last.changed
              /\ last.key \in DOMAIN storage =>
                    /\ last.prior # <<>>
                    /\ storage[last.key] = [expires_at |-> ExpiryOf(last.prior[1]),
                                            value |-> last.prior[1].value]
        /\ last.lookup = "hit" => SourceOf(config, last.result.value) # "local"

\* The station answers while a provider's result is cached under the key.
C30_Witness ==
    /\ last.done
    /\ last.local = "answered"
    /\ last.result.status = "ok"
    /\ last.key \in DOMAIN storage
    /\ SourceOf(config, storage[last.key].value) # "local"

(***************************************************************************)
(* backend.api.views_reco: the recommendation endpoint, its Redis-like     *)
(* store, its rate limit and its OpenRouter call.                          *)
(*   config   the process environment: whether the OpenRouter credentials  *)
(*            are set                                                      *)
(*   now      time.time(), in ticks of 1 / TicksPerSecond second           *)
(*   storage  InMemoryRedis._data: key -> (value, expires_at)              *)
(*   filled   history: per client the start of its rate-limit window and   *)
(*            the valid requests counted in it; per rounded coordinates    *)
(*            the payload last produced and when                           *)
(*   last     the request that has just been handled and its response      *)
(***************************************************************************)
CACHE_TTL_SECONDS == 45 * 60
RATE_LIMIT_MAX_REQUESTS == 20
RATE_LIMIT_TTL_SECONDS == 60 * 60

\* Clock resolution: time.time() is a float, int(expires_at - time.time())
\* truncates a fraction of a second.
TicksPerSecond == 2
\* Clock advances and requests handled per behaviour.
RecoAdvances == 1
MaxRequests == 3

\* Decimals of a coordinate in _redis_cache_key and in _fallback_recommendation.
RecoKeyDigits == 4
FallbackDigits == 2

\* Query strings: a parameter is absent (<<>>) or a text.  Latitudes on the
\* two sides of zero that round to zero at 4 decimals, one out of range, one
\* that is no number, and NaN.
RawLats == {<<>>, <<"abc">>, <<"nan">>, <<"91">>, <<"-0.00004">>, <<"0.00004">>}
RawLons == {<<>>, <<"37.0">>}

\* request.META of the two clients: one behind a proxy, one with no address.
Metas ==
    { [HTTP_X_FORWARDED_FOR |-> <<"10.0.0.1">>, REMOTE_ADDR |-> <<"10.0.0.2">>],
      [HTTP_X_FORWARDED_FOR |-> <<>>, REMOTE_ADDR |-> <<>>] }

\* What requests.post and the response hand to _call_openrouter.
Completions ==
    {"completion", "http_error", "network_error", "empty_body", "not_json",
     "no_choices", "null_content"}

\* float(text): a number in units of 10^-CoordDigits, NaN, or ValueError.
float(text) ==
    CASE text = "abc" -> Raised("ValueError", <<"could not convert string to float">>)
      [] text = "nan" -> Returned([nan |-> TRUE, x |-> 0])
      [] text = "91" -> Returned([nan |-> FALSE, x |-> 91 * Pow10(CoordDigits)])
      [] text = "37.0" -> Returned([nan |-> FALSE, x |-> 37 * Pow10(CoordDigits)])
      [] text = "-0.00004" -> Returned([nan |-> FALSE, x |-> 0 - 4])
      [] text = "0.00004" -> Returned([nan |-> FALSE, x |-> 4])

\* InMemoryRedis._cleanup_if_needed
InMemoryRedis__cleanup_if_needed(data, key, time) ==
    IF key \in DOMAIN data /\ data[key].expires_at # <<>> /\ data[key].expires_at[1] <= time
    THEN [k \in DOMAIN data \ {key} |-> data[k]]
    ELSE data

\* InMemoryRedis.setex
InMemoryRedis_setex(data, key, ttl, value, time) ==
    [k \in DOMAIN data \cup {key} |->
        IF k = key THEN [value |-> value, expires_at |-> <<time + ttl * TicksPerSecond>>]
        ELSE data[k]]

\* InMemoryRedis.get: the value is <<>> for None.
InMemoryRedis_get(data, key, time) ==
    LET d == InMemoryRedis__cleanup_if_needed(data, key, time)
    IN  [data |-> d, value |-> IF key \in DOMAIN d THEN <<d[key].value>> ELSE <<>>]

\* InMemoryRedis.incr: the counter is kept as str(value) and read back with
\* int(), which returns the integer written.
InMemoryRedis_incr(data, key, amount, time) ==
    LET d == InMemoryRedis__cleanup_if_needed(data, key, time)
    IN  IF key \notin DOMAIN d
        THEN [data |-> [k \in DOMAIN d \cup {key} |->
                           IF k = key THEN [value |-> amount, expires_at |-> <<>>] ELSE d[k]],
              value |-> amount]
        ELSE [data |-> [d EXCEPT ![key].value = d[key].value + amount],
              value |-> d[key].value + amount]

\* InMemoryRedis.ttl: -2 for no entry, -1 for no expiry, else whole seconds.
InMemoryRedis_ttl(data, key, time) ==
    LET d == InMemoryRedis__cleanup_if_needed(data, key, time)
    IN  IF key \notin DOMAIN d THEN [data |-> d, value |-> 0 - 2]
        ELSE IF d[key].expires_at = <<>> THEN [data |-> d, value |-> 0 - 1]
        ELSE [data |-> d, value |-> (d[key].expires_at[1] - time) \div TicksPerSecond]

\* InMemoryRedis.expire
InMemoryRedis_expire(data, key, ttl, time) ==
    LET d == InMemoryRedis__cleanup_if_needed(data, key, time)
    IN  IF key \notin DOMAIN d THEN d
        ELSE [d EXCEPT ![key].expires_at = <<time + ttl * TicksPerSecond>>]

\* _parse_coordinate
_parse_coordinate(raw_value, name) ==
    IF raw_value = <<>> THEN Raised("ValueError", <<"Missing", name>>)
    ELSE LET value == float(raw_value[1])
             bound == (IF name = "lat" THEN 90 ELSE 180) * Pow10(CoordDigits)
         IN  IF value.status = "raise" THEN value
             ELSE IF value.value.nan \/ value.value.x < 0 - bound \/ value.value.x > bound
             THEN Raised("ValueError", <<"must be between", name>>)
             ELSE Returned(value.value.x)

\* _get_client_ip
_get_client_ip(META) ==
    IF META.HTTP_X_FORWARDED_FOR # <<>> THEN META.HTTP_X_FORWARDED_FOR[1]
    ELSE IF META.REMOTE_ADDR # <<>> THEN META.REMOTE_ADDR[1]
    ELSE "anonymous"

\* _redis_cache_key: f"reco:{lat:.4f}:{lon:.4f}"
_redis_cache_key(lat, lon) ==
    <<"reco", FormatFixed(lat, RecoKeyDigits), FormatFixed(lon, RecoKeyDigits)>>

\* _rate_limit_key: f"reco:rate:{ip}", in the three fields of a cache key.
_rate_limit_key(ip) == <<"reco", <<"rate", 0>>, <<ip, 0>>>>

\* Faulty variant of the rate limit: the request that reaches the maximum is
\* rejected already.
_enforce_rate_limit_inclusive(data, ip, time) ==
    LET key == _rate_limit_key(ip)
        current == InMemoryRedis_incr(data, key, 1, time)
        ttl == InMemoryRedis_ttl(current.data, key, time)
        fresh == ttl.value \in {0 - 1, 0 - 2}
        after == IF fresh THEN InMemoryRedis_expire(ttl.data, key, RATE_LIMIT_TTL_SECONDS, time)
                 ELSE ttl.data
        left == IF fresh THEN RATE_LIMIT_TTL_SECONDS ELSE ttl.value
    IN  [data |-> after,
         exc |-> IF current.value >= RATE_LIMIT_MAX_REQUESTS
                 THEN <<IF left # 0 /\ left > 0 THEN left ELSE RATE_LIMIT_TTL_SECONDS>>
                 ELSE <<>>]

\* Faulty variant of the rate limit: a sliding window, every request sets
\* the expiry of the counter anew.
_enforce_rate_limit_sliding(data, ip, time) ==
    LET key == _rate_limit_key(ip)
        current == InMemoryRedis_incr(data, key, 1, time)
    IN  [data |-> InMemoryRedis_expire(current.data, key, RATE_LIMIT_TTL_SECONDS, time),
         exc |-> IF current.value > RATE_LIMIT_MAX_REQUESTS
                 THEN <<RATE_LIMIT_TTL_SECONDS>>
                 ELSE <<>>]

\* _enforce_rate_limit: exc is <<>> or <<retry_after>> of RateLimitExceeded.
_enforce_rate_limit(data, ip, time) ==
    LET key == _rate_limit_key(ip)
        current == InMemoryRedis_incr(data, key, 1, time)
        ttl == InMemoryRedis_ttl(current.data, key, time)
        fresh == ttl.value \in {0 - 1, 0 - 2}
        after == IF fresh THEN InMemoryRedis_expire(ttl.data, key, RATE_LIMIT_TTL_SECONDS, time)
                 ELSE ttl.data
        left == IF fresh THEN RATE_LIMIT_TTL_SECONDS ELSE ttl.value
    IN  [data |-> after,
         exc |-> IF current.value > RATE_LIMIT_MAX_REQUESTS
                 THEN <<IF left # 0 /\ left > 0 THEN left ELSE RATE_LIMIT_TTL_SECONDS>>
                 ELSE <<>>]

\* _call_openrouter: the outcome and the number of requests posted.
_call_openrouter(credentials, completion) ==
    IF ~credentials THEN [result |-> Raised("RuntimeError", <<"credentials">>), posted |-> 0]
    ELSE [posted |-> 1,
          result |->
            CASE completion = "network_error" -> Raised("RequestException", <<>>)
              [] completion = "http_error" -> Raised("HTTPError", <<>>)
              [] completion = "not_json" -> Raised("JSONDecodeError", <<>>)
              [] completion = "empty_body" -> Raised("RuntimeError", <<"structure">>)
              [] completion = "no_choices" -> Raised("RuntimeError", <<"structure">>)
              [] completion = "null_content" -> Raised("AttributeError", <<>>)
              [] completion = "completion" -> Returned("advice")]

\* The except clause of recommendation_view around _call_openrouter:
\* RuntimeError and RequestException with its subclass HTTPError.
RecoCatches(exc) == exc \in {"RuntimeError", "RequestException", "HTTPError"}

\* _fallback_recommendation: the text depends on the hemisphere (lat >= 0),
\* on the hour of the day and on the coordinates at 2 decimals.
_fallback_recommendation(lat, lon, daytime) ==
    <<"fallback advice", lat >= 0, daytime,
      FormatFixed(lat, FallbackDigits), FormatFixed(lon, FallbackDigits)>>

\* json.dumps of a payload and json.loads of the text.
json_dumps(payload) == <<"json", payload>>
json_loads(text) == text[2]

\* recommendation_view on store content data at clock time: the response
\* (or the exception that escapes), the store afterwards and what was done;
\* failed tells that _call_openrouter was called and raised.
RecoHandle(data, time, GET, META, credentials, completion, daytime) ==
    LET lat == _parse_coordinate(GET.lat, "lat")
        lon == _parse_coordinate(GET.lon, "lon")
        bad == IF lat.status = "raise" THEN lat ELSE lon
        ip == _get_client_ip(META)
        limit == _enforce_rate_limit(data, ip, time)
        cache_key == _redis_cache_key(lat.value, lon.value)
        cached == InMemoryRedis_get(limit.data, cache_key, time)
        call == _call_openrouter(credentials, completion)
        payload == [recommendation |->
                       IF call.result.status = "ok" THEN <<call.result.value>>
                       ELSE _fallback_recommendation(lat.value, lon.value, daytime),
                    source |-> IF call.result.status = "ok" THEN "openrouter" ELSE "fallback",
                    lat |-> lat.value, lon |-> lon.value]
    IN  IF bad.status = "raise"
        THEN [status_code |-> 400, body |-> [error |-> bad.cause], exc |-> "",
              data |-> data, posted |-> 0, counted |-> FALSE, lookup |-> "none",
              wrote |-> FALSE, failed |-> FALSE]
        ELSE IF limit.exc # <<>>
        THEN [status_code |-> 429,
              body |-> [error |-> "rate_limit_exceeded", retry_after |-> limit.exc[1]],
              exc |-> "", data |-> limit.data, posted |-> 0, counted |-> TRUE,
              lookup |-> "none", wrote |-> FALSE, failed |-> FALSE]
        ELSE IF cached.value # <<>>
        THEN [status_code |-> 200,
              body |-> LET loaded == json_loads(cached.value[1])
                       IN  [recommendation |-> loaded.recommendation,
                            source |-> loaded.source, lat |-> loaded.lat,
                            lon |-> loaded.lon, cached |-> TRUE],
              exc |-> "", data |-> cached.data, posted |-> 0, counted |-> TRUE,
              lookup |-> "hit", wrote |-> FALSE, failed |-> FALSE]
        ELSE IF call.result.status = "raise" /\ ~RecoCatches(call.result.exc)
        THEN [status_code |-> 0, body |-> <<>>, exc |-> call.result.exc,
              data |-> cached.data, posted |-> call.posted, counted |-> TRUE,
              lookup |-> "miss", wrote |-> FALSE, failed |-> TRUE]
        ELSE [status_code |-> 200, body |-> payload, exc |-> "",
              data |-> InMemoryRedis_setex(cached.data, cache_key, CACHE_TTL_SECONDS,
                                           json_dumps(payload), time),
              posted |-> call.posted, counted |-> TRUE, lookup |-> "miss", wrote |-> TRUE,
              failed |-> call.result.status = "raise"]

\* The environments: OpenRouter credentials configured or not.
RecoConfs == { [svc |-> "reco", credentials |-> c] : c \in BOOLEAN }

\* Instants (ticks) at which requests arrive after clock 0: the last tick
\* within the cache TTL of an entry written at 0 and the first past it, the
\* last tick of a rate-limit window opened at 0 and the first past it.
RecoInstants ==
    { CACHE_TTL_SECONDS * TicksPerSecond - 1, CACHE_TTL_SECONDS * TicksPerSecond,
      RATE_LIMIT_TTL_SECONDS * TicksPerSecond - 1, RATE_LIMIT_TTL_SECONDS * TicksPerSecond }

\* datetime.utcnow().hour of the clock, and is_daytime = 6 <= hour < 20.
IsDaytime(time) ==
    LET hour == (time \div (TicksPerSecond * 3600)) % 24
    IN  6 <= hour /\ hour < 20

\* The requests a client has sent in its current window, this one included:
\* a window opens with the first valid request after the previous one ended
\* and lasts RATE_LIMIT_TTL_SECONDS.
WindowAfter(window, ip, time) ==
    IF ip \in DOMAIN window
       /\ time < window[ip].start + RATE_LIMIT_TTL_SECONDS * TicksPerSecond
    THEN [start |-> window[ip].start, seen |-> window[ip].seen + 1]
    ELSE [start |-> time, seen |-> 1]

\* The store, the history and the response once recommendation_view has
\* handled one request in state (data, history) at clock time with outcome out.
RecoOutcome(data, history, time, GET, META, out) ==
    LET lat == _parse_coordinate(GET.lat, "lat")
        lon == _parse_coordinate(GET.lon, "lon")
        valid == lat.status = "ok" /\ lon.status = "ok"
        ip == _get_client_ip(META)
        coords == IF valid THEN <<Rounded(lat.value, RecoKeyDigits),
                                  Rounded(lon.value, RecoKeyDigits)>>
                  ELSE <<>>
        window == WindowAfter(history.window, ip, time)
    IN  [data |-> out.data,
         history |->
             [window |-> IF valid
                         THEN [c \in DOMAIN history.window \cup {ip} |->
                                  IF c = ip THEN window ELSE history.window[c]]
                         ELSE history.window,
              produced |-> IF out.wrote
                           THEN [c \in DOMAIN history.produced \cup {coords} |->
                                    IF c = coords THEN [payload |-> out.body, at |-> time]
                                    ELSE history.produced[c]]
                           ELSE history.produced],
         response |->
             [done |-> TRUE, valid |-> valid, ip |-> ip, coords |-> coords,
              status_code |-> out.status_code, body |-> out.body, exc |-> out.exc,
              posted |-> out.posted, counted |-> out.counted,
              lookup |-> out.lookup, wrote |-> out.wrote, failed |-> out.failed,
              changed |-> out.data # data,
              seen |-> IF valid THEN window.seen ELSE 0,
              prior |-> IF valid /\ coords \in DOMAIN history.produced
                        THEN <<history.produced[coords]>> ELSE <<>>]]

\* The store, the history and the response after recommendation_view has
\* handled one request in state (data, history) at clock time.
RecoStep(data, history, time, GET, META, credentials, completion) ==
    RecoOutcome(data, history, time, GET, META,
                RecoHandle(data, time, GET, META, credentials, completion, IsDaytime(time)))

\* The state first with the proxied client's counter and window at n requests.
WarmedTo(first, ip, n) ==
    [data |-> [first.data EXCEPT ![_rate_limit_key(ip)].value = n],
     history |-> [first.history EXCEPT !.window[ip].seen = n]]

\* The state after the proxied client has sent n requests for the same
\* valid coordinates at clock 0: the first one is handled on the empty store,
\* each further one is answered from the cache and only counted.
Warmed(n, credentials) ==
    IF n = 0 THEN [data |-> <<>>, history |-> [window |-> <<>>, produced |-> <<>>]]
    ELSE WarmedTo(RecoStep(<<>>, [window |-> <<>>, produced |-> <<>>], 0,
                           [lat |-> <<"0.00004">>, lon |-> <<"37.0">>],
                           [HTTP_X_FORWARDED_FOR |-> <<"10.0.0.1">>,
                            REMOTE_ADDR |-> <<"10.0.0.2">>],
                           credentials, "completion"),
                  "10.0.0.1", n)

\* Requests already handled when a behaviour starts: none, or one short of
\* the limit.
Warmups == {0, RATE_LIMIT_MAX_REQUESTS - 1}

NoRequest ==
    [done |-> FALSE, valid |-> FALSE, ip |-> "", coords |-> <<>>, status_code |-> 0,
     body |-> <<>>, exc |-> "", posted |-> 0, counted |-> FALSE, lookup |-> "none",
     wrote |-> FALSE, failed |-> FALSE, changed |-> FALSE, seen |-> 0, prior |-> <<>>]

\* threads counts the requests handled in the behaviour.
InitReco ==
    /\ config \in RecoConfs
    /\ now = 0
    /\ ticks = 0
    /\ \E n \in Warmups : \E warm \in {Warmed(n, config.credentials)} :
          /\ storage = warm.data
          /\ filled = warm.history
    /\ last = NoRequest
    /\ threads = 0

\* One call of recommendation_view.
recommendation_view ==
    /\ threads < MaxRequests
    /\ \E GET \in [lat : RawLats, lon : RawLons], META \in Metas, completion \in Completions :
          \E step \in {RecoStep(storage, filled, now, GET, META, config.credentials, completion)} :
              /\ storage' = step.data
              /\ filled' = step.history
              /\ last' = step.response
    /\ threads' = threads + 1
    /\ UNCHANGED <<config, now, ticks>>

\* Time passes between two requests.
RecoAdvance ==
    /\ ticks < RecoAdvances
    /\ \E t \in RecoInstants : t > now /\ now' = t
    /\ ticks' = ticks + 1
    /\ last' = NoRequest
    /\ UNCHANGED <<config, storage, filled, threads>>

NextReco == recommendation_view \/ RecoAdvance

SpecReco == InitReco /\ [][NextReco]_vars

\* C21: of the requests with valid coordinates a client sends within one
\* rate-limit window, the first RATE_LIMIT_MAX_REQUESTS are admitted, served
\* from the cache or not, and each further one is answered 429 with error
\* 'rate_limit_exceeded' and retry_after >= 1.
C21_PerClientLimit ==
    (last.done /\ last.valid) =>
        /\ last.counted
        /\ last.seen <= RATE_LIMIT_MAX_REQUESTS =>
              /\ last.status_code # 429
              /\ last.lookup \in {"hit", "miss"}
        /\ last.seen > RATE_LIMIT_MAX_REQUESTS =>
              /\ last.status_code = 429
              /\ last.body.error = "rate_limit_exceeded"
              /\ last.body.retry_after >= 1
              /\ last.lookup = "none" /\ last.posted = 0

\* The request after the limit arrives in the last half second of the
\* window, when the whole seconds left are 0.
C21_Witness ==
    /\ last.done
    /\ last.seen = RATE_LIMIT_MAX_REQUESTS + 1
    /\ last.status_code = 429
    /\ now = RATE_LIMIT_TTL_SECONDS * TicksPerSecond - 1
    /\ last.body.retry_after = RATE_LIMIT_TTL_SECONDS

\* A recommendation was produced earlier for the coordinates of the request
\* just admitted, rounded to 4 decimals, and its TTL has not run out.
ProducedWithinTtl ==
    /\ last.done /\ last.valid /\ last.status_code # 429
    /\ last.prior # <<>>
    /\ now < last.prior[1].at + CACHE_TTL_SECONDS * TicksPerSecond

\* C22: a produced recommendation is stored with a TTL of CACHE_TTL_SECONDS,
\* and every admitted request within that TTL for coordinates equal after
\* rounding to 4 decimals returns the same recommendation with cached = true
\* and without an OpenRouter call.
C22_ServedFromCache ==
    /\ (last.done /\ last.wrote) =>
          \E k \in DOMAIN storage :
              /\ storage[k].value = json_dumps(last.body)
              /\ storage[k].expires_at = <<now + CACHE_TTL_SECONDS * TicksPerSecond>>
    /\ ProducedWithinTtl =>
          /\ last.lookup = "hit"
          /\ last.status_code = 200
          /\ last.body.cached
          /\ last.body.recommendation = last.prior[1].payload.recommendation
          /\ last.posted = 0

\* C23: when the OpenRouter call of an admitted request fails (status, network,
\* credentials or response structure), the response is 200 with a local
\* recommendation of source 'fallback'; the failure never reaches the caller.
C23_FailureFallsBack ==
    (last.done /\ last.failed) =>
        /\ last.exc = ""
        /\ last.status_code = 200
        /\ last.body.source = "fallback"

(***************************************************************************)
(* backend.core.health.HealthRegistry and backend.app.api.HealthAPI:       *)
(* threads record provider errors, drain them and serve the health         *)
(* endpoint.                                                               *)
(*   storage  the registry: _station_last_seen, _provider_errors,          *)
(*            _cache_stats and the holder of _lock (<<>> when free)        *)
(*   threads  per thread, the call it is in and its local variables        *)
(*   ticks    calls started in the behaviour                               *)
(*   filled   history: per provider the increments recorded since the last *)
(*            drain, and in total, and the counts drained in total         *)
(*   last     the drain or request that has just returned and its result   *)
(***************************************************************************)
HEALTH_PATH == "/api/admin/health"

\* Calls started per behaviour.
MaxCalls == 4

ProviderNames == {"yandex-weather", "open-meteo"}
\* provider and increment arguments of record_provider_error; the empty name
\* and the increment 0 are rejected.
ProviderArgs == ProviderNames \cup {""}
Increments == {0, 1, 3}
Methods == {"GET", "get", "Get", "POST", "post"}
Paths == {HEALTH_PATH, "/api/admin/unknown", "/api/admin/health/"}

\* Faulty variant of str.upper: the text as it is.
str_upper_identity(method) == method

\* str.upper on the method names.
str_upper(method) ==
    CASE method \in {"GET", "get", "Get"} -> "GET"
      [] method \in {"POST", "post"} -> "POST"

\* dict.get(provider, 0)
Count(counters, provider) ==
    IF provider \in DOMAIN counters THEN counters[provider] ELSE 0

\* Faulty variant of the with-block of record_provider_error: it is entered
\* without waiting for the lock.
record_may_enter_unlocked(lock) == TRUE

\* with self._lock in record_provider_error: entered when the lock is free.
record_may_enter(lock) == lock = <<>>

\* HealthRegistry.snapshot
HealthRegistry_snapshot(registry) ==
    [stations |-> registry.stations, providers |-> registry.providers,
     cache |-> registry.cache]

\* HealthAPI.handle_request: status and body; the body of a 200 is
\* json.dumps of the snapshot.
handle_request(registry, method, path) ==
    IF path # HEALTH_PATH THEN [status_code |-> 404, body |-> <<"json", "Not found">>]
    ELSE IF str_upper(method) # "GET"
    THEN [status_code |-> 405, body |-> <<"json", "Method not allowed">>]
    ELSE [status_code |-> 200, body |-> <<"json", HealthRegistry_snapshot(registry)>>]

HealthIdle == [pc |-> "idle", provider |-> "", increment |-> 0, read |-> 0, snapshot |-> <<>>]

NoResult ==
    [op |-> "none", method |-> "", path |-> "", status_code |-> 0, body |-> <<>>,
     result |-> <<>>, expected |-> <<>>, left |-> <<>>, changed |-> FALSE]

\* A registry with one heartbeat and cache statistics set, or neither.
InitHealth ==
    /\ config = [svc |-> "health"]
    /\ now = 0
    /\ ticks = 0
    /\ \E seen \in BOOLEAN :
          storage = [stations |-> IF seen THEN [s \in {"station-1"} |-> "2024-01-10T12:30:00+00:00"]
                                  ELSE <<>>,
                     providers |-> <<>>,
                     cache |-> IF seen THEN [hits |-> 42, misses |-> 3, keys |-> 7]
                               ELSE [hits |-> 0, misses |-> 0, keys |-> 0],
                     lock |-> <<>>]
    /\ filled = [pending |-> [p \in ProviderNames |-> 0],
                 recorded |-> [p \in ProviderNames |-> 0],
                 drained |-> [p \in ProviderNames |-> 0]]
    /\ last = NoResult
    /\ threads = [t \in Threads |-> HealthIdle]

\* record_provider_error is called: the arguments are validated and the
\* thread goes on to take the lock; an invalid argument raises ValueError.
record_provider_error_call(t) ==
    /\ threads[t].pc = "idle"
    /\ ticks < MaxCalls
    /\ \E provider \in ProviderArgs, increment \in Increments :
          threads' = [threads EXCEPT ![t] =
                         IF provider = "" \/ increment <= 0 THEN HealthIdle
                         ELSE [HealthIdle EXCEPT !.pc = "record_lock", !.provider = provider,
                                                 !.increment = increment]]
    /\ ticks' = ticks + 1
    /\ last' = NoResult
    /\ UNCHANGED <<config, now, storage, filled>>

\* with self._lock
record_provider_error_lock(t) ==
    /\ threads[t].pc = "record_lock"
    /\ record_may_enter(storage.lock)
    /\ storage' = [storage EXCEPT !.lock = <<t>>]
    /\ threads' = [threads EXCEPT ![t].pc = "record_read"]
    /\ UNCHANGED <<config, now, ticks, filled, last>>

\* self._provider_errors.get(provider, 0)
record_provider_error_read(t) ==
    /\ threads[t].pc = "record_read"
    /\ threads' = [threads EXCEPT ![t].pc = "record_write",
                                  ![t].read = Count(storage.providers, threads[t].provider)]
    /\ UNCHANGED <<config, now, ticks, storage, filled, last>>

\* self._provider_errors[provider] = ... + increment, and the lock released.
record_provider_error_write(t) ==
    /\ threads[t].pc = "record_write"
    /\ LET provider == threads[t].provider
           increment == threads[t].increment
       IN  /\ storage' = [storage EXCEPT
                            !.providers = [p \in DOMAIN storage.providers \cup {provider} |->
                                              IF p = provider THEN threads[t].read + increment
                                              ELSE storage.providers[p]],
                            !.lock = <<>>]
           /\ filled' = [filled EXCEPT !.pending[provider] = @ + increment,
                                       !.recorded[provider] = @ + increment]
    /\ threads' = [threads EXCEPT ![t] = HealthIdle]
    /\ UNCHANGED <<config, now, ticks, last>>

\* drain_provider_errors is called and waits for the lock.
drain_provider_errors_call(t) ==
    /\ threads[t].pc = "idle"
    /\ ticks < MaxCalls
    /\ threads' = [threads EXCEPT ![t].pc = "drain_lock"]
    /\ ticks' = ticks + 1
    /\ last' = NoResult
    /\ UNCHANGED <<config, now, storage, filled>>

\* with self._lock: snapshot = dict(self._provider_errors)
drain_provider_errors_copy(t) ==
    /\ threads[t].pc = "drain_lock"
    /\ storage.lock = <<>>
    /\ storage' = [storage EXCEPT !.lock = <<t>>]
    /\ threads' = [threads EXCEPT ![t].pc = "drain_clear", ![t].snapshot = storage.providers]
    /\ UNCHANGED <<config, now, ticks, filled, last>>

\* self._provider_errors.clear(); return snapshot, and the lock released.
drain_provider_errors_clear(t) ==
    /\ threads[t].pc = "drain_clear"
    /\ storage' = [storage EXCEPT !.providers = <<>>, !.lock = <<>>]
    /\ filled' = [filled EXCEPT
                    !.pending = [p \in ProviderNames |-> 0],
                    !.drained = [p \in ProviderNames |->
                                    filled.drained[p] + Count(threads[t].snapshot, p)]]
    /\ last' = [NoResult EXCEPT !.op = "drain", !.result = threads[t].snapshot,
                                !.expected = filled.pending,
                                !.left = storage'.providers]
    /\ threads' = [threads EXCEPT ![t] = HealthIdle]
    /\ UNCHANGED <<config, now, ticks>>

\* HealthAPI.handle_request; snapshot takes the lock, so a GET of the health
\* path is served while no thread is inside a with-block.
HealthAPI_handle_request(t) ==
    /\ threads[t].pc = "idle"
    /\ ticks < MaxCalls
    /\ \E method \in Methods, path \in Paths :
          /\ (path = HEALTH_PATH /\ str_upper(method) = "GET") => storage.lock = <<>>
          /\ LET response == handle_request(storage, method, path)
             IN  last' = [NoResult EXCEPT !.op = "request", !.method = method, !.path = path,
                                          !.status_code = response.status_code,
                                          !.body = response.body]
    /\ ticks' = ticks + 1
    /\ UNCHANGED <<config, now, storage, filled, threads>>

NextHealth ==
    \E t \in Threads :
        \/ record_provider_error_call(t)
        \/ record_provider_error_lock(t)
        \/ record_provider_error_read(t)
        \/ record_provider_error_write(t)
        \/ drain_provider_errors_call(t)
        \/ drain_provider_errors_copy(t)
        \/ drain_provider_errors_clear(t)
        \/ HealthAPI_handle_request(t)

SpecHealth == InitHealth /\ [][NextHealth]_vars

\* C25: drain_provider_errors returns exactly the counts recorded since the
\* previous drain and leaves no provider counter; under every interleaving
\* with record_provider_error each recorded increment is counted once, in a
\* drained result or in the registry.
C25_DrainExact ==
    /\ last.op = "drain" =>
          /\ \A p \in ProviderNames : Count(last.result, p) = last.expected[p]
          /\ \A p \in DOMAIN last.result : last.result[p] > 0
          /\ last.left = <<>>
    /\ \A p \in ProviderNames :
          filled.recorded[p] = filled.drained[p] + Count(storage.providers, p)

\* A drain returns a count while another thread is about to record.
C25_Witness ==
    /\ last.op = "drain"
    /\ \E p \in DOMAIN last.result : last.result[p] = 4
    /\ \E t \in Threads : threads[t].pc = "record_lock"

\* The spellings of GET.
GetSpellings == {"GET", "get", "Get"}

\* C26: handle_request answers 404 for every path but the health path, 405
\* for the health path with a method that is not GET in any letter case, and
\* 200 with the registry snapshot for GET; the registry is left unchanged.
C26_HealthDispatch ==
    [][\A t \in Threads :
          HealthAPI_handle_request(t) =>
             /\ storage' = storage
             /\ last'.path # HEALTH_PATH => last'.status_code = 404
             /\ (last'.path = HEALTH_PATH /\ last'.method \notin GetSpellings) =>
                   last'.status_code = 405
             /\ (last'.path = HEALTH_PATH /\ last'.method \in GetSpellings) =>
                   /\ last'.status_code = 200
                   /\ last'.body = <<"json", [stations |-> storage.stations,
                                             providers |-> storage.providers,
                                             cache |-> storage.cache]>>]_vars

\* A lower-case get of the health path is answered while errors are recorded.
C26_Witness ==
    /\ last.op = "request"
    /\ last.method = "get"
    /\ last.path = HEALTH_PATH
    /\ last.status_code = 200
    /\ storage.providers # <<>>

(***************************************************************************)
(* backend.ingest.mqtt_consumer.process_payload over the store of          *)
(* backend.core.models.                                                    *)
(*   storage  the database: the rows of stations and of observations       *)
(*   ticks    messages processed in the behaviour                          *)
(*   filled   history: the station ids of the messages that passed         *)
(*            validation                                                   *)
(*   last     the call that has just returned: its result, the store       *)
(*            before it and the station and timestamp it was about         *)
(***************************************************************************)
\* Messages processed per behaviour.
MaxMessages == 4

\* Topics: two stations and a topic of another format.
Topics ==
    { <<"weather", "stations", "esp32-1", "measurements">>,
      <<"weather", "stations", "esp32-2", "measurements">>,
      <<"weather", "measurements">> }

\* ts_utc texts: wall-clock minutes of one day with a UTC offset in minutes
\* (<<>> for a text without offset).  The first two are the same instant.
Timestamps ==
    { [wall |-> 754, utcoffset |-> <<0>>], [wall |-> 934, utcoffset |-> <<180>>],
      [wall |-> 755, utcoffset |-> <<0>>], [wall |-> 754, utcoffset |-> <<>>] }

\* JSON null as the value of station_id, and a temperature_c that is a JSON
\* list, which sqlite3 cannot bind as a parameter.
JsonNull == "null"
JsonList == 0 - 1

\* Message bodies: bytes that are no JSON, a JSON list, a JSON object without
\* ts_utc, or a JSON object with ts_utc, an optional station_id, an optional
\* station name and a metric; of the last, some the database refuses.
Messages ==
    { [json |-> "invalid"], [json |-> "list"], [json |-> "no_ts"] }
    \cup
    { [json |-> "object", ts_utc |-> ts, station_id |-> sid, name |-> name,
       temperature_c |-> temp] :
        ts \in Timestamps, sid \in {<<>>, <<"esp32-2">>},
        name \in {<<>>, <<"Balcony">>, <<"Roof">>}, temp \in {<<>>, <<20>>} }
    \cup
    { [json |-> "object", ts_utc |-> [wall |-> 754, utcoffset |-> <<0>>],
       station_id |-> m[1], name |-> name, temperature_c |-> m[2]] :
        m \in {<<<<JsonNull>>, <<20>>>>, <<<<>>, <<JsonList>>>>, <<<<"esp32-2">>, <<JsonList>>>>},
        name \in {<<>>, <<"Roof">>} }

\* parse_topic_station
parse_topic_station(topic) ==
    IF Len(topic) >= 4 /\ topic[1] = "weather" /\ topic[2] = "stations"
    THEN Returned(topic[3])
    ELSE Raised("ValueError", <<"Unsupported topic format">>)

\* schemas._ensure_datetime: an aware datetime converted to UTC.
_ensure_datetime(value) ==
    IF value.utcoffset = <<>> THEN Raised("ValueError", <<"ts_utc must be timezone aware">>)
    ELSE Returned(value.wall - value.utcoffset[1])

\* models.get_or_create_station: the rows afterwards and the station's id.
\* Of the defaults the name stands for name, latitude, longitude, elevation_m
\* and meta: a value that is not None and differs is written to the row.
\* external_id is NOT NULL: the INSERT of a row without one raises.
get_or_create_station(stations, external_id, defaults) ==
    LET rows == { r \in stations : r.external_id = external_id }
    IN  IF external_id = JsonNull
        THEN [stations |-> stations, id |-> 0, exc |-> "IntegrityError"]
        ELSE IF rows # {}
        THEN LET row == CHOOSE r \in rows : TRUE
             IN  IF defaults.name # <<>> /\ row.name # defaults.name
                 THEN [stations |-> (stations \ {row}) \cup {[row EXCEPT !.name = defaults.name]},
                       id |-> row.id, exc |-> ""]
                 ELSE [stations |-> stations, id |-> row.id, exc |-> ""]
        ELSE LET id == Cardinality(stations) + 1
             IN  [stations |-> stations \cup {[id |-> id, external_id |-> external_id,
                                               name |-> defaults.name]},
                  id |-> id, exc |-> ""]

\* Faulty variant of insert_observation: no look-up of an existing row.
insert_observation_unchecked(observations, station_id, payload) ==
    [observations |-> observations \cup
                        {[id |-> Cardinality(observations) + 1, station_id |-> station_id,
                          ts_utc |-> payload.ts_utc, temperature_c |-> payload.temperature_c]},
     inserted |-> TRUE, exc |-> ""]

\* models.insert_observation: ts_utc is the UTC isoformat of the instant.
\* The INSERT raises for a value sqlite3 cannot bind.
insert_observation(observations, station_id, payload) ==
    IF \E o \in observations : o.station_id = station_id /\ o.ts_utc = payload.ts_utc
    THEN [observations |-> observations, inserted |-> FALSE, exc |-> ""]
    ELSE IF payload.temperature_c = <<JsonList>>
    THEN [observations |-> observations, inserted |-> FALSE, exc |-> "ProgrammingError"]
    ELSE [observations |-> observations \cup
                             {[id |-> Cardinality(observations) + 1, station_id |-> station_id,
                               ts_utc |-> payload.ts_utc,
                               temperature_c |-> payload.temperature_c]},
          inserted |-> TRUE, exc |-> ""]

\* Faulty variant of session_scope: the session is committed although its
\* body raised.
session_scope_committing(db, work, outcome) == work

\* models.session_scope: the database after the session whose body left the
\* rows work and ended with outcome: committed, or rolled back when the
\* body raised.
session_scope(db, work, outcome) ==
    IF outcome.status = "raise" THEN db ELSE work

\* process_payload on the database db: the result (or the exception), the
\* database afterwards, the station id and timestamp once stored, and
\* whether the body of the session had changed a row when it ended (dirty).
ProcessPayload(db, topic, payload) ==
    LET station_id == parse_topic_station(topic)
        failed(exc) == [result |-> exc, db |-> db, station |-> <<>>, ts_utc |-> <<>>,
                        dirty |-> FALSE]
    IN  IF station_id.status = "raise" THEN failed(station_id)
        ELSE IF payload.json = "invalid" THEN failed(Raised("ValueError", <<"Invalid JSON payload">>))
        ELSE IF payload.json = "list"
        THEN failed(Raised("ValueError", <<"Payload must be a JSON object">>))
        ELSE IF payload.json = "no_ts"
        THEN failed(Raised("ValueError", <<"ts_utc is required">>))
        ELSE LET external_id == IF payload.station_id # <<>> THEN payload.station_id[1]
                                ELSE station_id.value
                 ts_utc == _ensure_datetime(payload.ts_utc)
                 station == get_or_create_station(db.stations, external_id,
                                                  [name |-> payload.name])
                 stored == insert_observation(db.observations, station.id,
                                              [ts_utc |-> ts_utc.value,
                                               temperature_c |-> payload.temperature_c])
                 work == [stations |-> station.stations,
                          observations |-> IF station.exc # "" THEN db.observations
                                           ELSE stored.observations]
                 outcome == IF station.exc # "" THEN Raised(station.exc, <<>>)
                            ELSE IF stored.exc # "" THEN Raised(stored.exc, <<>>)
                            ELSE Returned(stored.inserted)
             IN  IF ts_utc.status = "raise" THEN failed(ts_utc)
                 ELSE [result |-> outcome,
                       db |-> session_scope(db, work, outcome),
                       station |-> IF outcome.status = "ok" THEN <<external_id>> ELSE <<>>,
                       ts_utc |-> IF outcome.status = "ok" THEN <<ts_utc.value>> ELSE <<>>,
                       dirty |-> work # db]

NoMessage ==
    [done |-> FALSE, result |-> Raised("", <<>>), before |-> [stations |-> {}, observations |-> {}],
     station |-> <<>>, ts_utc |-> <<>>, dirty |-> FALSE]

InitIngest ==
    /\ config = [svc |-> "ingest"]
    /\ now = 0
    /\ ticks = 0
    /\ storage = [stations |-> {}, observations |-> {}]
    /\ filled = {}
    /\ last = NoMessage
    /\ threads = <<>>

\* One call of process_payload, committed by session_scope when it returns
\* and rolled back when it raises.
process_payload ==
    /\ ticks < MaxMessages
    /\ \E topic \in Topics, payload \in Messages :
          LET out == ProcessPayload(storage, topic, payload)
          IN  /\ storage' = out.db
              /\ filled' = IF out.station # <<>> THEN filled \cup {out.station[1]} ELSE filled
              /\ last' = [done |-> TRUE, result |-> out.result, before |-> storage,
                          station |-> out.station, ts_utc |-> out.ts_utc,
                          dirty |-> out.dirty]
    /\ ticks' = ticks + 1
    /\ UNCHANGED <<config, now, threads>>

NextIngest == process_payload

SpecIngest == InitIngest /\ [][NextIngest]_vars

\* The observations of the station with the external id at the timestamp.
StoredFor(db, external_id, ts_utc) ==
    { o \in db.observations :
        /\ o.ts_utc = ts_utc
        /\ \E s \in db.stations : s.external_id = external_id /\ s.id = o.station_id }

\* The store holds at most one observation per (station, ts_utc) and one
\* station row per station id seen; a call returns True exactly when it
\* inserted a new observation, and on False the observations are unchanged.
DedupedStore ==
    /\ \A o1, o2 \in storage.observations :
          (o1.station_id = o2.station_id /\ o1.ts_utc = o2.ts_utc) => o1 = o2
    /\ \A s1, s2 \in storage.stations :
          (s1.external_id = s2.external_id \/ s1.id = s2.id) => s1 = s2
    /\ { s.external_id : s \in storage.stations } = filled
    /\ (last.done /\ last.result.status = "ok") =>
          LET was == StoredFor(last.before, last.station[1], last.ts_utc[1])
              is == StoredFor(storage, last.station[1], last.ts_utc[1])
          IN  /\ last.result.value = (was = {})
              /\ Cardinality(is) = 1
              /\ last.result.value =>
                    storage.observations = last.before.observations \cup is
              /\ ~last.result.value => storage.observations = last.before.observations
    /\ (last.done /\ last.result.status = "raise") => storage = last.before

\* C24 as stated: as above, and a call that returns False stores nothing.
C24_RepeatStoresNothing ==
    /\ DedupedStore
    /\ (last.done /\ last.result.status = "ok" /\ ~last.result.value) =>
          storage = last.before

\* C24: after any sequence of process_payload calls the store holds at most
\* one observation per (station, ts_utc) and exactly one station row per
\* station id seen; process_payload returns True exactly when it inserted a
\* new observation and returns False, storing no observation, for every
\* repeat of a stored (station, ts_utc); a repeat may still update the
\* station row from the payload.
C24_Deduplicates ==
    /\ DedupedStore
    /\ (last.done /\ last.result.status = "ok" /\ ~last.result.value) =>
          /\ storage.observations = last.before.observations
          /\ { [id |-> s.id, external_id |-> s.external_id] : s \in storage.stations }
               = { [id |-> s.id, external_id |-> s.external_id] : s \in last.before.stations }

\* A repeat returns False and stores no observation while the station row
\* is updated from its payload.
C24_Witness ==
    /\ last.done
    /\ last.result.status = "ok"
    /\ ~last.result.value
    /\ Cardinality(storage.observations) = 2
    /\ Cardinality(storage.stations) = 2
    /\ storage # last.before

(***************************************************************************)
(* backend.api.views: the weather endpoint and the orchestrator it builds  *)
(* once per process.                                                       *)
(*   config   os.environ: whether OPENWEATHER_API_KEY and                  *)
(*            YANDEX_WEATHER_KEY are set                                   *)
(*   threads  the lru_cache of get_weather_service: <<>> or the provider   *)
(*            names of the cached WeatherServiceBridge, in order           *)
(*   storage  the content of the Django cache the bridge uses              *)
(*   ticks    requests handled in the behaviour                            *)
(*   filled   history: the environment at the time the cached service was  *)
(*            built                                                        *)
(*   last     the request that has just been handled and its response      *)
(***************************************************************************)
\* Requests handled per behaviour.
MaxViewCalls == 3

Environs == [openweather_key : BOOLEAN, yandex_key : BOOLEAN]

\* request.query_params: city, lat and lon, each absent (<<>>) or a text.
QueryParams ==
    [city : {<<>>, <<"test">>, <<"paris">>},
     lat : {<<>>, <<"abc">>, <<"nan">>, <<"0.00004">>},
     lon : {<<>>, <<"37.0">>}]

\* Constructing a backend provider: YandexWeatherProvider defines no
\* __init__, so the api_key keyword raises TypeError.
ProviderInit(name) ==
    IF name = "yandex" THEN Raised("TypeError", <<>>) ELSE Returned(name)

\* _build_providers: the provider names in order, or the exception raised.
_build_providers(environ) ==
    LET first == IF environ.openweather_key THEN <<ProviderInit("openweather")>> ELSE <<>>
        second == IF environ.yandex_key THEN <<ProviderInit("yandex")>> ELSE <<>>
        built == first \o second \o <<ProviderInit("openmeteo")>>
        broken == { i \in DOMAIN built : built[i].status = "raise" }
    IN  IF broken # {} THEN built[CHOOSE i \in broken : \A j \in broken : i <= j]
        ELSE Returned([i \in DOMAIN built |-> built[i].value])

\* get_weather_service under lru_cache(maxsize=1): the cached service when
\* there is one, else a new one, cached when its construction returns.
get_weather_service(cached, environ) ==
    IF cached # <<>> THEN [service |-> Returned(cached[1]), cached |-> cached, built |-> FALSE]
    ELSE LET providers == _build_providers(environ)
         IN  IF providers.status = "raise"
             THEN [service |-> providers, cached |-> <<>>, built |-> FALSE]
             ELSE [service |-> providers, cached |-> <<providers.value>>, built |-> TRUE]

\* A coordinate in a key of cache_key_template: "nan" for NaN.
ViewFormat(value) ==
    IF value.nan THEN <<"nan", 0>> ELSE FormatFixed(value.x, BridgeKeyDigits)

\* WeatherServiceBridge.get_weather of the service with the given provider
\* names; succeeds tells for each name whether its get_weather returns.
ViewResolve(providers, store, time, latitude, longitude, succeeds) ==
    LET cache_key == <<"weather", ViewFormat(latitude), ViewFormat(longitude)>>
        cached == LocMemCache_get(store, cache_key, time)
        winners == { i \in DOMAIN providers : succeeds[providers[i]] }
        first == CHOOSE i \in winners : \A j \in winners : i <= j
        point == BridgePoint(latitude, longitude, providers[first], time, 0)
    IN  IF cached.found
        THEN [result |-> Returned(_deserialize(cached.value)), store |-> cached.storage,
              calls |-> 0, lookup |-> "hit"]
        ELSE IF winners = {}
        THEN [result |-> Raised("WeatherServiceError", <<>>), store |-> cached.storage,
              calls |-> Len(providers), lookup |-> "miss"]
        ELSE [result |-> Returned(point),
              store |-> LocMemCache_set(cached.storage, cache_key, _serialize(point),
                                        WEATHER_CACHE_TIMEOUT, time),
              calls |-> first, lookup |-> "miss"]

\* WeatherView.get: the response (or the exception that escapes), the service
\* cache and the cache content afterwards, and what was done; invoked tells
\* that the request reached get_weather_service(), whether that returned a
\* service or raised.
WeatherViewGet(query, cached, store, time, environ, succeeds) ==
    LET aside(status, source, exc) ==
            [status_code |-> status, source |-> source, exc |-> exc, cached |-> cached,
             store |-> store, invoked |-> FALSE, calls |-> 0, lookup |-> "none",
             built |-> FALSE]
        latitude == IF query.lat = <<>> THEN Raised("KeyError", <<>>) ELSE float(query.lat[1])
        longitude == IF query.lon = <<>> THEN Raised("KeyError", <<>>) ELSE float(query.lon[1])
        got == get_weather_service(cached, environ)
        out == ViewResolve(got.service.value, store, time, latitude.value, longitude.value,
                           succeeds)
    IN  IF query.city # <<>>
        THEN IF query.city[1] # "test" THEN aside(400, "", "") ELSE aside(200, "stub", "")
        ELSE IF latitude.status = "raise" \/ longitude.status = "raise" THEN aside(400, "", "")
        ELSE IF got.service.status = "raise"
        THEN [aside(0, "", got.service.exc) EXCEPT !.invoked = TRUE]
        ELSE [status_code |-> IF out.result.status = "ok" THEN 200 ELSE 502,
              source |-> IF out.result.status = "ok" THEN out.result.value.source ELSE "",
              exc |-> "", cached |-> got.cached, store |-> out.store, invoked |-> TRUE,
              calls |-> out.calls, lookup |-> out.lookup, built |-> got.built]

NoView ==
    [done |-> FALSE, query |-> [city |-> <<>>, lat |-> <<>>, lon |-> <<>>], status_code |-> 0,
     source |-> "", exc |-> "", invoked |-> FALSE, calls |-> 0, lookup |-> "none",
     changed |-> FALSE, succeeds |-> <<>>]

InitView ==
    /\ config \in Environs
    /\ now = 0
    /\ ticks = 0
    /\ storage = <<>>
    /\ filled = <<>>
    /\ last = NoView
    /\ threads = <<>>

\* One request to WeatherView.get.
WeatherView_get ==
    /\ ticks < MaxViewCalls
    /\ \E query \in QueryParams,
          succeeds \in [{"openweather", "yandex", "openmeteo"} -> BOOLEAN] :
          LET out == WeatherViewGet(query, threads, storage, now, config, succeeds)
          IN  /\ threads' = out.cached
              /\ storage' = out.store
              /\ filled' = IF out.built THEN <<config>> ELSE filled
              /\ last' = [done |-> TRUE, query |-> query, status_code |-> out.status_code,
                          source |-> out.source, exc |-> out.exc, invoked |-> out.invoked,
                          calls |-> out.calls, lookup |-> out.lookup,
                          changed |-> out.store # storage,
                          succeeds |-> IF out.lookup = "miss" THEN <<succeeds>> ELSE <<>>]
    /\ ticks' = ticks + 1
    /\ UNCHANGED <<config, now>>

\* reset_weather_service_cache
reset_weather_service_cache ==
    /\ threads # <<>>
    /\ threads' = <<>>
    /\ filled' = <<>>
    /\ last' = NoView
    /\ UNCHANGED <<config, now, ticks, storage>>

\* A key is set in or removed from os.environ between two requests.
Environ_set ==
    /\ \E environ \in Environs : environ # config /\ config' = environ
    /\ last' = NoView
    /\ UNCHANGED <<now, ticks, storage, filled, threads>>

NextView == WeatherView_get \/ reset_weather_service_cache \/ Environ_set

SpecView == InitView /\ [][NextView]_vars

\* The provider order the environment calls for.
ConfiguredOrder(environ) ==
    (IF environ.openweather_key THEN <<"openweather">> ELSE <<>>)
    \o (IF environ.yandex_key THEN <<"yandex">> ELSE <<>>)
    \o <<"openmeteo">>

\* C27: the orchestrator's provider order is fixed when the service is built
\* and stays until reset_weather_service_cache: OpenWeather first and Yandex
\* second, each if its key is configured, Open-Meteo last; with an OpenWeather
\* key and a succeeding OpenWeather a request that reaches the providers
\* makes one outbound call and the source is 'openweather'.
C27_OrderFixedAtBuild ==
    /\ threads # <<>> => (filled # <<>> /\ threads[1] = ConfiguredOrder(filled[1]))
    /\ (last.done /\ last.invoked) =>
          /\ last.exc = ""
          /\ threads # <<>>
          /\ (last.lookup = "miss" /\ filled[1].openweather_key
                /\ last.succeeds[1]["openweather"]) =>
                (last.calls = 1 /\ last.source = "openweather")

\* A lat or lon parameter that is missing or not a valid number.
NotANumber(raw) == raw = <<>> \/ raw[1] \in {"abc", "nan"}

\* C28, for the requests WeatherView.get is given without a city: a request
\* whose lat or lon is missing or not a valid number is answered 400 without
\* invoking the orchestrator, without reading or writing a cache entry and
\* without an outbound call.
C28_ValidatedBeforeEngine ==
    (last.done /\ last.query.city = <<>>
       /\ (NotANumber(last.query.lat) \/ NotANumber(last.query.lon))) =>
        /\ last.status_code = 400
        /\ ~last.invoked
        /\ last.lookup = "none"
        /\ ~last.changed
        /\ last.calls = 0

(***************************************************************************)
(* The local station's gate and the provider loop of WeatherService.       *)
(***************************************************************************)
\* The data method of the local station was called in the completed call:
\* the station gave an answer for it, or the call returned a local value.
DataMethodCalled == last.answer.data # "absent" \/ last.local = "answered"

\* The completed call passed the local station over and went on to the
\* cache lookup and, on a miss, to the providers.
WentToCache ==
    /\ ~DataMethodCalled
    /\ last.local = "none"
    /\ last.lookup \in {"hit", "miss"}
    /\ last.lookup = "hit" => last.calls = <<>>
    /\ (last.lookup = "miss" /\ Invocable(config) # {}) => last.calls # <<>>

\* C31 as stated: the data method of the local station is called only when
\* a station is configured and its is_fresh gate has returned true in the
\* resolution; without a station or with a gate reporting not fresh the
\* resolution goes to the cache and the providers.
C31_DataOnlyAfterGate ==
    (last.done /\ config.svc = "core") =>
        /\ DataMethodCalled => (config.station # <<>> /\ last.answer.gate = "fresh")
        /\ (config.station = <<>> \/ last.answer.gate = "stale") => WentToCache

\* C31: the data method of the local station is called only when a station
\* is configured and its is_fresh gate, if the station has one, has returned
\* true in the resolution (a station without a callable is_fresh counts as
\* fresh); without a station or with a gate reporting not fresh the data
\* method is not called and the resolution goes to the cache and the
\* providers.
C31_GateGuardsData ==
    (last.done /\ config.svc = "core") =>
        /\ DataMethodCalled =>
              /\ config.station # <<>>
              /\ config.station[1].has_gate => last.answer.gate = "fresh"
        /\ (config.station = <<>> \/ last.answer.gate = "stale") => WentToCache

\* A gate reporting not fresh sends the resolution past a station that has
\* a data method, to a cache miss and the providers.
C31_Witness ==
    /\ last.done
    /\ config.svc = "core"
    /\ config.station # <<>>
    /\ config.station[1].has_gate /\ config.station[1].has_data
    /\ last.answer.gate = "stale"
    /\ last.lookup = "miss"
    /\ last.calls # <<>>

\* C32: in WeatherService a provider without a callable method of the
\* requested kind is passed over without an invocation and the next provider
\* is tried; when no provider has the method the resolution raises the
\* aggregate failure and writes nothing to the cache.
C32_SkipsMissingCapability ==
    (last.done /\ config.svc = "core" /\ last.lookup = "miss") =>
        /\ \A j \in 1..Len(last.calls) : config.has_method[last.calls[j].provider]
        /\ Invocable(config) # {} =>
              /\ last.calls # <<>>
              /\ \A i \in Invocable(config) : last.calls[1].provider <= i
        /\ Invocable(config) = {} =>
              /\ last.calls = <<>>
              /\ last.result.status = "raise"
              /\ last.result.exc = AggregateExc(config)
              /\ ~last.wrote
              /\ last.key \notin DOMAIN storage

\* The primary has no method of the kind and the fallback answers.
C32_Witness ==
    /\ last.done
    /\ config.svc = "core"
    /\ config.has_method = <<FALSE, TRUE>>
    /\ last.lookup = "miss"
    /\ Len(last.calls) = 1
    /\ last.calls[1].provider = 2
    /\ last.result.status = "ok"
    /\ last.wrote

\* The j-th provider invocation of the completed call got no response: the
\* outbound request timed out.
TimedOut(j) == last.calls[j].status_code = 0

\* The providers after provider i that the resolution can invoke.
LaterInvocable(i) == {k \in Invocable(config) : k > i}

\* C33: a resolution whose outbound calls each return or time out ends by
\* returning a result or by raising the aggregate failure, having invoked
\* each provider at most once; a provider whose call timed out has failed
\* and the next provider in order is tried after it.
C33_TimeoutFallsBack ==
    (last.done /\ last.lookup = "miss") =>
        /\ last.result.status = "ok" \/ last.result.exc = AggregateExc(config)
        /\ \A i, j \in 1..Len(last.calls) :
              i # j => last.calls[i].provider # last.calls[j].provider
        /\ \A j \in 1..Len(last.calls) :
              TimedOut(j) =>
                  /\ last.calls[j].outcome # "ok"
                  /\ LaterInvocable(last.calls[j].provider) # {} =>
                        /\ j < Len(last.calls)
                        /\ \A k \in LaterInvocable(last.calls[j].provider) :
                              last.calls[j + 1].provider <= k

\* The end (ticks) of the rate-limit window a client opened at start.
WindowEnd(start) == start + RATE_LIMIT_TTL_SECONDS * TicksPerSecond

\* C34: the rate-limit window is fixed.  The counter of a client expires
\* RATE_LIMIT_TTL_SECONDS after the request that opened its window and no
\* later request, admitted or rejected, moves that expiry, while each one
\* is counted; after a completed request of a client its counter key has an
\* expiry; the first request after the window has elapsed finds the counter
\* at 1 again and is admitted.
C34_FixedWindow ==
    /\ \A ip \in DOMAIN filled.window :
          _rate_limit_key(ip) \in DOMAIN storage =>
              /\ storage[_rate_limit_key(ip)].expires_at = <<WindowEnd(filled.window[ip].start)>>
              /\ storage[_rate_limit_key(ip)].value = filled.window[ip].seen
    /\ (last.done /\ last.valid) =>
          /\ last.counted
          /\ _rate_limit_key(last.ip) \in DOMAIN storage
          /\ storage[_rate_limit_key(last.ip)].expires_at # <<>>
          /\ storage[_rate_limit_key(last.ip)].expires_at[1] > now
          /\ last.seen = 1 =>
                /\ filled.window[last.ip].start = now
                /\ storage[_rate_limit_key(last.ip)].value = 1
                /\ last.status_code # 429

\* A request on the last tick of its client's window is counted and leaves
\* the expiry where the first request of the window put it.
C34_Witness ==
    /\ last.done /\ last.valid
    /\ last.status_code = 200
    /\ last.seen >= 2
    /\ filled.window[last.ip].start = 0
    /\ now = WindowEnd(0) - 1
    /\ storage[_rate_limit_key(last.ip)].expires_at = <<WindowEnd(0)>>

(***************************************************************************)
(* Values of zero in a provider's response.                                *)
(***************************************************************************)
\* The reply to the completed invocation was a well-formed 200 whose
\* section reports a temperature, a pressure, a wind speed and a
\* precipitation, each as a number.
ReportsNumbers ==
    /\ OverHttp
    /\ ReplyStatus = 200
    /\ ReplyBody.kind = "json"
    /\ ReplyBody.data.temp # <<>>
    /\ ReplyBody.data.h_pa # <<>>
    /\ ReplyBody.data.wind # <<>>
    /\ ReplyBody.data.precipitation[1] = "num"

\* The invocation built its points from one reported temperature: every
\* method but daily of the core Open-Meteo adapter, which reports the mean
\* of a day's minimum and maximum.
OneTemperature == ~(config.adapter = "core.openmeteo" /\ last.op = "daily")

\* C35: when a provider reports numbers for temperature and wind speed, 0
\* included, the adapter call succeeds and each point carries the reported
\* temperature and the reported wind speed, as it is or converted to m/s;
\* a reported 0 is not turned into None, not replaced by the value of
\* another field and does not make the call fail.
C35_ZeroIsAValue ==
    ReportsNumbers =>
        /\ Failure = ""
        /\ \A point \in PointsOf(last.result) :
              /\ OneTemperature => point.temperature_c = ReplyBody.data.temp
              /\ point.wind_speed_ms \in {ReplyBody.data.wind, _kmh_to_ms(ReplyBody.data.wind)}

(***************************************************************************)
(* Failed and concurrent calls of process_payload.                         *)
(***************************************************************************)
\* C36: a call of process_payload that raises, whether on the topic, the
\* JSON text, the shape of the payload, its ts_utc or an error of the
\* database, leaves the store as it was: no station row and no observation
\* row is added or modified.
C36_RaiseLeavesStoreUnchanged ==
    (last.done /\ last.result.status = "raise") =>
        /\ storage = last.before
        /\ last.result.exc \in {"ValueError", "IntegrityError", "ProgrammingError"}

\* The database refused the observation after the session had written to
\* the row of an existing station, and the write was rolled back.
C36_Witness ==
    /\ last.done
    /\ last.result.status = "raise"
    /\ last.result.exc = "ProgrammingError"
    /\ last.dirty
    /\ storage.stations # {}
    /\ storage = last.before

(***************************************************************************)
(* Two process_payload calls at once, each in the session of its own       *)
(* connection to one sqlite database, for the same station and the same    *)
(* ts_utc.  Each statement of a session is one step: a SELECT reads the    *)
(* committed rows and the session's own uncommitted ones, the first write  *)
(* of a session takes the database's write lock, which commit and          *)
(* rollback release.                                                       *)
(*   storage  the committed rows of stations and of observations           *)
(*   filled   the sessions holding the write lock (none or one)            *)
(*   config   the station name each call's payload carries                 *)
(*   threads  per call: its position, the station row its SELECT found,    *)
(*            the station's id, its uncommitted rows (<<>> outside a       *)
(*            transaction) and what the call returned or raised            *)
(***************************************************************************)
Sessions == 1..MaxThreads

\* The station and timestamp both payloads carry.
RaceStation == "esp32-1"
RaceTs == 12 * 60 + 34

\* A call that has opened its session and run no statement yet.
Opened ==
    [pc |-> "station_select", row |-> <<>>, station_id |-> 0, work |-> <<>>,
     result |-> Raised("", <<>>)]

\* The database before the calls: empty, or holding the station (with an
\* observation of another time).
RaceStores ==
    { [stations |-> {}, observations |-> {}],
      [stations |-> {[id |-> 1, external_id |-> RaceStation, name |-> <<>>]},
       observations |-> {[id |-> 1, station_id |-> 1, ts_utc |-> 694, temperature_c |-> <<20>>]}] }

InitSessions ==
    /\ config \in [svc : {"sessions"}, names : [Sessions -> {<<>>, <<"Roof">>, <<"Balcony">>}]]
    /\ now = 0
    /\ ticks = 0
    /\ storage \in RaceStores
    /\ filled = {}
    /\ last = NoMessage
    /\ threads = [s \in Sessions |-> Opened]

\* The rows a statement of session s works on.
View(s) == IF threads[s].work # <<>> THEN threads[s].work[1] ELSE storage

\* The write lock is free for session s.
MayWrite(s) == filled \subseteq {s}

\* The body of the session raised: rollback, close, and the call raises.
Aborted(s, exc) ==
    /\ threads' = [threads EXCEPT ![s] =
                     [@ EXCEPT !.pc = "done", !.work = <<>>, !.result = Raised(exc, <<>>)]]
    /\ filled' = filled \ {s}

\* A write of session s waits for the lock the other session holds; after
\* the connection's timeout sqlite3 raises "database is locked".
Locked(s) == ~MayWrite(s) /\ Aborted(s, "OperationalError")

\* get_or_create_station, the SELECT by external_id.
station_select(s) ==
    /\ threads[s].pc = "station_select"
    /\ LET rows == { r \in View(s).stations : r.external_id = RaceStation }
       IN  threads' = [threads EXCEPT ![s] =
              [@ EXCEPT !.pc = "station_write",
                        !.row = IF rows = {} THEN <<>> ELSE <<CHOOSE r \in rows : TRUE>>]]
    /\ UNCHANGED <<config, now, ticks, storage, filled, last>>

\* get_or_create_station after the SELECT: the UPDATE of a found row whose
\* name differs, nothing for a found row that agrees, the INSERT when no row
\* was found.  external_id is UNIQUE.
station_write(s) ==
    /\ threads[s].pc = "station_write"
    /\ LET t == threads[s]
           name == config.names[s]
           view == View(s)
       IN  IF t.row # <<>> /\ (name = <<>> \/ t.row[1].name = name)
           THEN /\ threads' = [threads EXCEPT ![s] =
                      [@ EXCEPT !.pc = "observation_select", !.station_id = t.row[1].id]]
                /\ UNCHANGED filled
           ELSE \/ Locked(s)
                \/ /\ MayWrite(s)
                   /\ IF t.row # <<>>
                      THEN /\ threads' = [threads EXCEPT ![s] =
                                 [@ EXCEPT !.pc = "observation_select",
                                           !.station_id = t.row[1].id,
                                           !.work = <<[view EXCEPT !.stations =
                                               { IF r.id = t.row[1].id
                                                 THEN [r EXCEPT !.name = name] ELSE r :
                                                 r \in view.stations }]>>]]
                           /\ filled' = {s}
                      ELSE IF \E r \in view.stations : r.external_id = RaceStation
                      THEN Aborted(s, "IntegrityError")
                      ELSE LET id == Cardinality(view.stations) + 1
                           IN  /\ threads' = [threads EXCEPT ![s] =
                                     [@ EXCEPT !.pc = "observation_select", !.station_id = id,
                                               !.work = <<[view EXCEPT !.stations =
                                                   @ \cup {[id |-> id, external_id |-> RaceStation,
                                                            name |-> name]}]>>]]
                               /\ filled' = {s}
    /\ UNCHANGED <<config, now, ticks, storage, last>>

\* insert_observation, the SELECT of an existing row: one found returns
\* False.
observation_select(s) ==
    /\ threads[s].pc = "observation_select"
    /\ threads' = [threads EXCEPT ![s] =
          IF \E o \in View(s).observations :
                o.station_id = threads[s].station_id /\ o.ts_utc = RaceTs
          THEN [@ EXCEPT !.pc = "commit", !.result = Returned(FALSE)]
          ELSE [@ EXCEPT !.pc = "observation_insert"]]
    /\ UNCHANGED <<config, now, ticks, storage, filled, last>>

\* insert_observation, the INSERT, then return True.  (station_id, ts_utc)
\* is unique.
observation_insert(s) ==
    /\ threads[s].pc = "observation_insert"
    /\ LET t == threads[s]
           view == View(s)
       IN  \/ Locked(s)
           \/ /\ MayWrite(s)
              /\ IF \E o \in view.observations :
                       o.station_id = t.station_id /\ o.ts_utc = RaceTs
                 THEN Aborted(s, "IntegrityError")
                 ELSE /\ threads' = [threads EXCEPT ![s] =
                            [@ EXCEPT !.pc = "commit", !.result = Returned(TRUE),
                                      !.work = <<[view EXCEPT !.observations =
                                          @ \cup {[id |-> Cardinality(view.observations) + 1,
                                                   station_id |-> t.station_id,
                                                   ts_utc |-> RaceTs,
                                                   temperature_c |-> <<20>>]}]>>]]
                      /\ filled' = {s}
    /\ UNCHANGED <<config, now, ticks, storage, last>>

\* session_scope after the body returned: commit and close.
session_commit(s) ==
    /\ threads[s].pc = "commit"
    /\ storage' = View(s)
    /\ filled' = filled \ {s}
    /\ threads' = [threads EXCEPT ![s] = [@ EXCEPT !.pc = "done", !.work = <<>>]]
    /\ UNCHANGED <<config, now, ticks, last>>

NextSessions ==
    \/ \E s \in Sessions : station_select(s)
    \/ \E s \in Sessions : station_write(s)
    \/ \E s \in Sessions : observation_select(s)
    \/ \E s \in Sessions : observation_insert(s)
    \/ \E s \in Sessions : session_commit(s)

SpecSessions == InitSessions /\ [][NextSessions]_vars

\* Both calls have ended.
BothEnded == \A s \in Sessions : threads[s].pc = "done"

\* The calls that returned the value.
CallsReturning(value) ==
    { s \in Sessions : threads[s].result.status = "ok" /\ threads[s].result.value = value }

\* C37: under any interleaving of two concurrent process_payload calls with
\* the same station and the same ts_utc, each in its own session, there is
\* afterwards exactly one observation row of that time and one station row,
\* exactly one call has returned True, and the other has returned False
\* rather than raised.
C37_OneTrueOtherFalse ==
    BothEnded =>
        /\ Cardinality({ r \in storage.stations : r.external_id = RaceStation }) = 1
        /\ Cardinality({ o \in storage.observations : o.ts_utc = RaceTs }) = 1
        /\ Cardinality(CallsReturning(TRUE)) = 1
        /\ Cardinality(CallsReturning(FALSE)) = 1

(***************************************************************************)
(* backend.core.health.HealthRegistry, its mutators called one at a time.  *)
(*   storage  the registry: _station_last_seen and _provider_errors        *)
(*   ticks    calls made in the behaviour                                  *)
(*   last     the call that has just ended: the mutator, the registry      *)
(*            before it and the exception it raised ("" when it returned)  *)
(***************************************************************************)
\* station_id arguments; the empty one is rejected.
StationArgs == {"", "station-1", "station-2"}

\* when arguments: None, an aware datetime or a naive one, as wall-clock
\* minutes and UTC offset in minutes.
Whens ==
    { <<>>, <<[wall |-> 934, utcoffset |-> <<180>>]>>, <<[wall |-> 760, utcoffset |-> <<>>]>> }

\* Mappings handed to the bulk operations, as the items in iteration order.
Mappings(keys, values) ==
    {<<>>} \cup { <<<<k, v>>>> : k \in keys, v \in values }
           \cup { <<<<k[1], v1>>, <<k[2], v2>>>> :
                    k \in { p \in keys \X keys : p[1] # p[2] }, v1 \in values, v2 \in values }

\* Values of the counters handed to extend_provider_errors.
CounterValues == {0 - 1, 0, 2}

\* HealthRegistry._format_datetime: the instant in UTC; a naive value is
\* taken as UTC.
_format_datetime(value) ==
    IF value.utcoffset = <<>> THEN value.wall ELSE value.wall - value.utcoffset[1]

\* when or datetime.now(timezone.utc), formatted.
LastSeen(when, time) ==
    IF when = <<>> THEN time ELSE _format_datetime(when[1])

\* HealthRegistry.record_station_heartbeat
record_station_heartbeat(registry, station_id, when, time) ==
    IF station_id = "" THEN [registry |-> registry, exc |-> "ValueError"]
    ELSE [registry |-> [registry EXCEPT !.stations =
                           DictSet(@, station_id, LastSeen(when, time))],
          exc |-> ""]

\* HealthRegistry.record_provider_error
record_provider_error(registry, provider, increment) ==
    IF provider = "" \/ increment <= 0 THEN [registry |-> registry, exc |-> "ValueError"]
    ELSE [registry |-> [registry EXCEPT !.providers =
                           DictSet(@, provider, Count(@, provider) + increment)],
          exc |-> ""]

\* The loop of bulk_station_update from item i on: each item is validated
\* and then written, one after the other.
RECURSIVE StationLoop(_, _, _, _)
StationLoop(registry, updates, i, time) ==
    IF i > Len(updates) THEN [registry |-> registry, exc |-> ""]
    ELSE IF updates[i][1] = "" THEN [registry |-> registry, exc |-> "ValueError"]
    ELSE StationLoop([registry EXCEPT !.stations =
                         DictSet(@, updates[i][1], LastSeen(updates[i][2], time))],
                     updates, i + 1, time)

\* HealthRegistry.bulk_station_update
bulk_station_update(registry, updates, time) == StationLoop(registry, updates, 1, time)

\* The loop of extend_provider_errors from item i on.
RECURSIVE ProviderLoop(_, _, _)
ProviderLoop(registry, counters, i) ==
    IF i > Len(counters) THEN [registry |-> registry, exc |-> ""]
    ELSE IF counters[i][1] = "" \/ counters[i][2] < 0
    THEN [registry |-> registry, exc |-> "ValueError"]
    ELSE ProviderLoop([registry EXCEPT !.providers =
                          DictSet(@, counters[i][1], Count(@, counters[i][1]) + counters[i][2])],
                      counters, i + 1)

\* HealthRegistry.extend_provider_errors
extend_provider_errors(registry, counters) == ProviderLoop(registry, counters, 1)

InitRegistry ==
    /\ config = [svc |-> "registry"]
    /\ now = 0
    /\ ticks = 0
    /\ storage = [stations |-> EmptyDict, providers |-> EmptyDict]
    /\ filled = {}
    /\ last = [op |-> "none", before |-> [stations |-> EmptyDict, providers |-> EmptyDict],
               exc |-> "", items |-> 0]
    /\ threads = <<>>

\* The call op with items entries ended as out.
Mutated(op, items, out) ==
    /\ ticks < MaxCalls
    /\ storage' = out.registry
    /\ last' = [op |-> op, before |-> storage, exc |-> out.exc, items |-> items]
    /\ ticks' = ticks + 1
    /\ UNCHANGED <<config, now, filled, threads>>

RecordStationHeartbeat ==
    \E station_id \in StationArgs, when \in Whens :
        Mutated("record_station_heartbeat", 1,
                record_station_heartbeat(storage, station_id, when, now))

RecordProviderError ==
    \E provider \in ProviderArgs, increment \in Increments \cup {0 - 1} :
        Mutated("record_provider_error", 1,
                record_provider_error(storage, provider, increment))

BulkStationUpdate ==
    \E updates \in Mappings(StationArgs, Whens) :
        Mutated("bulk_station_update", Len(updates),
                bulk_station_update(storage, updates, now))

ExtendProviderErrors ==
    \E counters \in Mappings(ProviderArgs, CounterValues) :
        Mutated("extend_provider_errors", Len(counters),
                extend_provider_errors(storage, counters))

NextRegistry ==
    \/ RecordStationHeartbeat
    \/ RecordProviderError
    \/ BulkStationUpdate
    \/ ExtendProviderErrors

SpecRegistry == InitRegistry /\ [][NextRegistry]_vars

\* C38: every HealthRegistry mutator that raises ValueError leaves the
\* registry unchanged: record_station_heartbeat and record_provider_error,
\* and the bulk operations bulk_station_update and extend_provider_errors,
\* where a single invalid entry means that no entry of the call has been
\* applied.
C38_RaiseLeavesRegistryUnchanged ==
    last.exc = "ValueError" => storage = last.before

(***************************************************************************)
(* The cache round trip of WeatherServiceBridge.get_weather: a resolution  *)
(* that misses stores _serialize(point) and returns point, a later hit     *)
(* returns _deserialize of what the cache holds.                           *)
(*   storage  the content of the cache                                     *)
(*   filled   per key, the point returned by the resolution that filled it *)
(*   last     the resolution that has just returned: a fill or a hit, its  *)
(*            key and the point it returned                                *)
(***************************************************************************)
\* Points a provider returns: all eight fields, observed_at aware, written
\* in UTC, east of it and west of it.
RoundTripPoints ==
    { [temperature_c |-> t, pressure_hpa |-> 100000, wind_speed_ms |-> 0,
       precipitation_mm |-> 250] @@ BridgePoint(c[1], c[2], "open-meteo", instant, utcoffset) :
        c \in Coords, t \in {0, 0 - 1500}, instant \in {0, 86399},
        utcoffset \in TzOffsets \cup {0 - 330} }

\* Equality of two WeatherPoints: field by field, two aware datetimes being
\* equal when they denote the same instant.
PointEq(p, q) ==
    /\ DOMAIN p = DOMAIN q
    /\ \A f \in DOMAIN p \ {"observed_at"} : p[f] = q[f]
    /\ p.observed_at.instant = q.observed_at.instant

NoResolution == [op |-> "none", key |-> <<>>, result |-> <<>>]

InitRoundTrip ==
    /\ config \in [svc : {"bridge"}, kind : {"current"}, providers : {1}, ttl : BridgeTtls \ {0}]
    /\ now = 0
    /\ ticks = 0
    /\ storage = EmptyDict
    /\ filled = EmptyDict
    /\ last = NoResolution
    /\ threads = <<>>

\* get_weather after a miss: the provider's point is stored serialized and
\* returned.
get_weather_fill ==
    \E point \in RoundTripPoints :
        LET cache_key == BridgeKey(point.latitude, point.longitude)
        IN  /\ ~LocMemCache_get(storage, cache_key, now).found
            /\ storage' = LocMemCache_set(storage, cache_key, _serialize(point), config.ttl, now)
            /\ filled' = DictSet(filled, cache_key, point)
            /\ last' = [op |-> "fill", key |-> cache_key, result |-> point]
            /\ UNCHANGED <<config, now, ticks, threads>>

\* get_weather on a hit: the cached payload is deserialized and returned.
get_weather_hit ==
    \E c \in Coords :
        LET cache_key == BridgeKey(c[1], c[2])
            cached == LocMemCache_get(storage, cache_key, now)
        IN  /\ cached.found
            /\ last' = [op |-> "hit", key |-> cache_key, result |-> _deserialize(cached.value)]
            /\ UNCHANGED <<config, now, ticks, storage, filled, threads>>

\* cache.clear() between resolutions.
cache_cleared ==
    /\ storage # EmptyDict
    /\ storage' = EmptyDict
    /\ last' = NoResolution
    /\ UNCHANGED <<config, now, ticks, filled, threads>>

NextRoundTrip ==
    \/ get_weather_fill
    \/ get_weather_hit
    \/ cache_cleared

SpecRoundTrip == InitRoundTrip /\ [][NextRoundTrip]_vars

====
